---- MODULE Spec2Model ----
(***************************************************************************)
(* Address resolution pipeline of the Cleo repository: address parsing,    *)
(* the municipality cascade, NAR address matching, the NAR address cache,  *)
(* the update policy on properties and the nar_validation_queue.           *)
(*                                                                         *)
(* Text is a sequence of one-character strings, so that strip, upper,      *)
(* split, int() and str() are computed rather than assumed.  A nullable    *)
(* column or an Optional value is <<>> (NULL / None) or <<v>>.             *)
(***************************************************************************)
EXTENDS Integers, Sequences, FiniteSets, TLC

VARIABLES props, queue, workers, cache, nar, enable_cache, hist, rs, putters

vars == <<props, queue, workers, cache, nar, enable_cache, hist, rs, putters>>

(***************************************************************************)
(* Text primitives (Python str / SQL text semantics).                      *)
(***************************************************************************)
NULL == <<>>

Some(v) == <<v>>

IsNull(o) == o = <<>>

Val(o) == o[1]

Max(a, b) == IF a >= b THEN a ELSE b

Min(a, b) == IF a <= b THEN a ELSE b

LowerChars == <<"a","b","c","d","e","f","g","h","i","j","k","l","m",
                "n","o","p","q","r","s","t","u","v","w","x","y","z">>

UpperChars == <<"A","B","C","D","E","F","G","H","I","J","K","L","M",
                "N","O","P","Q","R","S","T","U","V","W","X","Y","Z">>

DigitChars == <<"0","1","2","3","4","5","6","7","8","9">>

IsDigit(c) == \E i \in 1..10 : DigitChars[i] = c

DigitVal(c) == (CHOOSE i \in 1..10 : DigitChars[i] = c) - 1

UpperChar(c) ==
    IF \E i \in 1..26 : LowerChars[i] = c
    THEN UpperChars[CHOOSE i \in 1..26 : LowerChars[i] = c]
    ELSE c

\* str.upper()
Upper(s) == [i \in 1..Len(s) |-> UpperChar(s[i])]

RECURSIVE LStrip(_)
LStrip(s) == IF s # <<>> /\ Head(s) = " " THEN LStrip(Tail(s)) ELSE s

RECURSIVE RStrip(_)
RStrip(s) ==
    IF s # <<>> /\ s[Len(s)] = " " THEN RStrip(SubSeq(s, 1, Len(s) - 1)) ELSE s

\* str.strip()
Strip(s) == RStrip(LStrip(s))

StartsWith(s, p) == Len(s) >= Len(p) /\ SubSeq(s, 1, Len(p)) = p

EndsWith(s, p) == Len(s) >= Len(p) /\ SubSeq(s, Len(s) - Len(p) + 1, Len(s)) = p

\* old in s  (also SQL  s LIKE '%old%')
Contains(s, old) ==
    \E i \in 1..(Len(s) - Len(old) + 1) : SubSeq(s, i, i + Len(old) - 1) = old

\* str.replace(old, new): every non-overlapping occurrence, left to right
RECURSIVE Replace(_, _, _)
Replace(s, old, new) ==
    IF s = <<>> THEN <<>>
    ELSE IF StartsWith(s, old)
         THEN new \o Replace(SubSeq(s, Len(old) + 1, Len(s)), old, new)
         ELSE <<Head(s)>> \o Replace(Tail(s), old, new)

\* str.split(sep) for a one-character separator: keeps empty fields
RECURSIVE SplitOn(_, _)
SplitOn(s, sep) ==
    IF ~ \E i \in 1..Len(s) : s[i] = sep THEN <<s>>
    ELSE LET k == CHOOSE i \in 1..Len(s) :
                      s[i] = sep /\ \A j \in 1..(i - 1) : s[j] # sep
         IN  <<SubSeq(s, 1, k - 1)>> \o SplitOn(SubSeq(s, k + 1, Len(s)), sep)

\* str.split(): whitespace-separated words, no empty words
RECURSIVE Words(_)
Words(s) ==
    LET t == LStrip(s)
    IN  IF t = <<>> THEN <<>>
        ELSE IF ~ \E i \in 1..Len(t) : t[i] = " " THEN <<t>>
        ELSE LET k == CHOOSE i \in 1..Len(t) :
                          t[i] = " " /\ \A j \in 1..(i - 1) : t[j] # " "
             IN  <<SubSeq(t, 1, k - 1)>> \o Words(SubSeq(t, k + 1, Len(t)))

\* ' '.join(words)
RECURSIVE Join(_)
Join(ws) ==
    IF ws = <<>> THEN <<>>
    ELSE IF Len(ws) = 1 THEN ws[1]
    ELSE ws[1] \o <<" ">> \o Join(Tail(ws))

\* str.split(maxsplit=1)
SplitFirst(s) ==
    LET ws == Words(s)
    IN  IF ws = <<>> THEN <<>>
        ELSE IF Len(ws) = 1 THEN <<ws[1]>>
        ELSE <<ws[1], LStrip(SubSeq(LStrip(s), Len(ws[1]) + 1, Len(LStrip(s))))>>

\* int(x) succeeds: a non-empty run of decimal digits
IsInt(s) == s # <<>> /\ \A i \in 1..Len(s) : IsDigit(s[i])

RECURSIVE ParseInt(_)
ParseInt(s) ==
    IF s = <<>> THEN 0
    ELSE 10 * ParseInt(SubSeq(s, 1, Len(s) - 1)) + DigitVal(s[Len(s)])

\* str(n) for n >= 0
RECURSIVE IntToStr(_)
IntToStr(n) ==
    IF n < 10 THEN <<DigitChars[n + 1]>>
    ELSE IntToStr(n \div 10) \o <<DigitChars[(n % 10) + 1]>>


(***************************************************************************)
(* Address Parser (ADDRESS_PARSING_PLAN.md, rules applied in order).       *)
(***************************************************************************)
\* truth value of an Optional str: neither None nor ''
Truthy(o) == ~ IsNull(o) /\ Val(o) # <<>>

\* str.split(maxsplit=n): at most n words, then the unsplit rest
RECURSIVE WordsMax(_, _)
WordsMax(s, n) ==
    LET t == LStrip(s)
    IN  IF t = <<>> THEN <<>>
        ELSE IF n = 0 THEN <<RStrip(t)>>
        ELSE IF ~ \E i \in 1..Len(t) : t[i] = " " THEN <<t>>
        ELSE LET k == CHOOSE i \in 1..Len(t) :
                          t[i] = " " /\ \A j \in 1..(i - 1) : t[j] # " "
             IN  <<SubSeq(t, 1, k - 1)>> \o WordsMax(SubSeq(t, k + 1, Len(t)), n - 1)

IsAlnum(c) ==
    \/ IsDigit(c)
    \/ \E i \in 1..26 : LowerChars[i] = c \/ UpperChars[i] = c

\* [A-Z0-9.] under re.IGNORECASE
IsUnitChar(c) == IsAlnum(c) \/ c = "."

UnitKeywords == <<<<"U","N","I","T">>, <<"S","U","I","T","E">>, <<"S","T","E">>, <<"A","P","T">>>>

\* index of the first character at or after i that is not a blank (Len(s)+1 if none)
RECURSIVE SkipBlanks(_, _)
SkipBlanks(s, i) == IF i <= Len(s) /\ s[i] = " " THEN SkipBlanks(s, i + 1) ELSE i

\* index one past the run of characters satisfying the class at i
RECURSIVE SkipUnitChars(_, _)
SkipUnitChars(s, i) ==
    IF i <= Len(s) /\ IsUnitChar(s[i]) THEN SkipUnitChars(s, i + 1) ELSE i

RECURSIVE SkipAlnum(_, _)
SkipAlnum(s, i) == IF i <= Len(s) /\ IsAlnum(s[i]) THEN SkipAlnum(s, i + 1) ELSE i

\* UNIT_PATTERN  \s+#?(Unit|Suite|Ste|Apt)\s+[A-Z0-9.]+  matched at i:
\* one past the end of the match, or 0 when there is none
UnitMatchEnd(s, i) ==
    IF ~ (i <= Len(s) /\ s[i] = " ") THEN 0
    ELSE LET j == SkipBlanks(s, i)
             k == IF j <= Len(s) /\ s[j] = "#" THEN j + 1 ELSE j
             ends == { SkipUnitChars(s, SkipBlanks(s, k + Len(UnitKeywords[w]))) :
                         w \in { w \in 1..Len(UnitKeywords) :
                            /\ k + Len(UnitKeywords[w]) <= Len(s)
                            /\ Upper(SubSeq(s, k, k + Len(UnitKeywords[w]) - 1)) = UnitKeywords[w]
                            /\ s[k + Len(UnitKeywords[w])] = " "
                            /\ SkipBlanks(s, k + Len(UnitKeywords[w])) <= Len(s)
                            /\ IsUnitChar(s[SkipBlanks(s, k + Len(UnitKeywords[w]))]) } }
         IN  IF ends = {} THEN 0 ELSE CHOOSE e \in ends : \A f \in ends : e >= f

\* UNIT_SHORT_PATTERN  \s+#[A-Z0-9]+$  matched at i
UnitShortMatchEnd(s, i) ==
    IF ~ (i <= Len(s) /\ s[i] = " ") THEN 0
    ELSE LET j == SkipBlanks(s, i)
         IN  IF /\ j < Len(s)
                /\ s[j] = "#"
                /\ IsAlnum(s[j + 1])
                /\ SkipAlnum(s, j + 1) = Len(s) + 1
             THEN Len(s) + 1 ELSE 0

\* pattern.sub('', s): every non-overlapping match removed, left to right
RECURSIVE SubUnit(_)
SubUnit(s) ==
    IF \A i \in 1..Len(s) : UnitMatchEnd(s, i) = 0 THEN s
    ELSE LET i == CHOOSE a \in 1..Len(s) :
                      UnitMatchEnd(s, a) # 0 /\ \A b \in 1..(a - 1) : UnitMatchEnd(s, b) = 0
         IN  SubSeq(s, 1, i - 1) \o SubUnit(SubSeq(s, UnitMatchEnd(s, i), Len(s)))

\* Rule 1 of parse_address: [unit, address]
StripUnit(address) ==
    IF \E i \in 1..Len(address) : UnitMatchEnd(address, i) # 0
    THEN LET i == CHOOSE a \in 1..Len(address) :
                      UnitMatchEnd(address, a) # 0
                      /\ \A b \in 1..(a - 1) : UnitMatchEnd(address, b) = 0
         IN  [unit |-> Some(Strip(SubSeq(address, i, UnitMatchEnd(address, i) - 1))),
              address |-> Strip(SubUnit(address))]
    ELSE IF \E i \in 1..Len(address) : UnitShortMatchEnd(address, i) # 0
    THEN LET i == CHOOSE a \in 1..Len(address) :
                      UnitShortMatchEnd(address, a) # 0
                      /\ \A b \in 1..(a - 1) : UnitShortMatchEnd(address, b) = 0
         IN  [unit |-> Some(Strip(SubSeq(address, i, Len(address)))),
              address |-> Strip(SubSeq(address, 1, i - 1))]
    ELSE [unit |-> NULL, address |-> address]

\* Rule 2
remove_city_prefix(address) ==
    LET parts == Words(address)
    IN  IF \E i \in 1..Len(parts) : IsDigit(parts[i][1])
        THEN LET i == CHOOSE a \in 1..Len(parts) :
                          IsDigit(parts[a][1]) /\ \A b \in 1..(a - 1) : ~ IsDigit(parts[b][1])
             IN  Join(SubSeq(parts, i, Len(parts)))
        ELSE address

\* Rule 3: [street_number, remaining]; street_number is NULL for an empty address
parse_street_number(address) ==
    LET parts == SplitFirst(address)
    IN  IF parts = <<>> THEN [street_number |-> NULL, remaining |-> address]
        ELSE LET first == parts[1]
                 rest == IF Len(parts) > 1 THEN parts[2] ELSE <<>>
                 number == IF Contains(first, <<"-">>)
                           THEN Strip(SplitOn(first, "-")[1])
                           ELSE first
                 rest_parts == WordsMax(rest, 2)
                 remaining == IF StartsWith(rest, <<"-">>) /\ Len(rest_parts) >= 2
                              THEN rest_parts[2]
                              ELSE rest
             IN  [street_number |-> Some(number), remaining |-> remaining]

StreetAbbreviations ==
    << <<<<" ","S","T","R","E","E","T">>, <<" ","S","T">>>>, <<<<" ","A","V","E","N","U","E">>, <<" ","A","V","E">>>>, <<<<" ","R","O","A","D">>, <<" ","R","D">>>>,
       <<<<" ","B","O","U","L","E","V","A","R","D">>, <<" ","B","L","V","D">>>>, <<<<" ","D","R","I","V","E">>, <<" ","D","R">>>>, <<<<" ","L","A","N","E">>, <<" ","L","N">>>>,
       <<<<" ","C","O","U","R","T">>, <<" ","C","T">>>>, <<<<" ","C","R","E","S","C","E","N","T">>, <<" ","C","R","E","S">>>>, <<<<" ","P","L","A","C","E">>, <<" ","P","L">>>>,
       <<<<" ","C","I","R","C","L","E">>, <<" ","C","I","R">>>>, <<<<" ","P","A","R","K","W","A","Y">>, <<" ","P","K","W","Y">>>>, <<<<" ","H","I","G","H","W","A","Y">>, <<" ","H","W","Y">>>> >>

\* Rule 7
normalize_street_name(street) ==
    IF street = <<>> THEN street
    ELSE LET street_upper == Strip(Upper(street))
             hits == { i \in 1..Len(StreetAbbreviations) :
                         EndsWith(street_upper, StreetAbbreviations[i][1]) }
         IN  IF hits = {} THEN street_upper
             ELSE LET i == CHOOSE a \in hits : \A b \in hits : a <= b
                  IN  SubSeq(street_upper, 1,
                             Len(street_upper) - Len(StreetAbbreviations[i][1]))
                      \o StreetAbbreviations[i][2]

\* Rule 5: ^(.+?)\s*\((.+?)\)$ on city.strip(); [city, suburb]
parse_city_suburb(city) ==
    LET c == Strip(city)
        opens == { i \in 2..(Len(c) - 2) : c[i] = "(" }
    IN  IF city = <<>> \/ ~ Contains(city, <<"(">>) THEN [city |-> Some(city), suburb |-> NULL]
        ELSE IF opens # {} /\ c[Len(c)] = ")"
        THEN LET i == CHOOSE a \in opens : \A b \in opens : a <= b
             IN  [city |-> Some(Strip(SubSeq(c, 1, i - 1))),
                  suburb |-> Some(Strip(SubSeq(c, i + 1, Len(c) - 1)))]
        ELSE [city |-> Some(city), suburb |-> NULL]

\* Rule 6; postal is Optional text
normalize_postal_code(postal) ==
    IF IsNull(postal) \/ Val(postal) = <<>> THEN NULL
    ELSE LET clean == Replace(Upper(Strip(Val(postal))), <<" ">>, <<>>)
         IN  IF Len(clean) # 6 THEN postal
             ELSE Some(SubSeq(clean, 1, 3) \o <<" ">> \o SubSeq(clean, 4, 6))

\* the dictionary parse_address returns
ParsedRecord(unit, address, street_number, street_name, cs, postal_clean) ==
    [street_number |-> street_number,
     street_name |-> street_name,
     unit |-> unit,
     city |-> cs.city,
     suburb |-> cs.suburb,
     postal_code |-> postal_clean,
     address_clean |-> IF Truthy(street_number) /\ street_name # <<>>
                       THEN Strip(Val(street_number) \o <<" ">> \o street_name)
                       ELSE address]

\* Rules 3, 7, 5 and 6 on the address left by rules 1, 2 and 4
ParseNumberAndStreet(unit, address, sn, city, postal_code) ==
    ParsedRecord(unit, address, sn.street_number,
                 normalize_street_name(sn.remaining),
                 IF Truthy(city) THEN parse_city_suburb(Val(city))
                 ELSE [city |-> NULL, suburb |-> NULL],
                 normalize_postal_code(postal_code))

\* Rules 2 and 4 on the address left by rule 1
ParseAfterUnit(r1, city, postal_code) ==
    ParseNumberAndStreet(r1.unit,
                         Replace(remove_city_prefix(r1.address), <<" ","&"," ">>, <<" ","-"," ">>),
                         parse_street_number(
                             Replace(remove_city_prefix(r1.address), <<" ","&"," ">>, <<" ","-"," ">>)),
                         city, postal_code)

\* address_line1, city and postal_code are Optional text
parse_address(address_line1, city, postal_code) ==
    ParseAfterUnit(StripUnit(IF IsNull(address_line1) THEN <<>>
                             ELSE Strip(Val(address_line1))),
                   city, postal_code)

(***************************************************************************)
(* Reference store: rows of data/nar/addresses.geo.parquet with            *)
(* country = 'CA' and state = 'ON'.  Two snapshots: the store is replaced  *)
(* by the annual NAR update.  Coordinates are in hundredths of a degree.   *)
(***************************************************************************)
NarRow(n, st, c, z, la, lo) ==
    [number |-> n, street |-> st, city |-> c, zipcode |-> z,
     latitude |-> la, longitude |-> lo]

NarSnapshot1 ==
    << NarRow(1521, <<"Y","O","N","G","E"," ","S","T">>, <<"T","O","R","O","N","T","O">>, <<"M","4","T"," ","1","Z","2">>, 4368, 7939),
       NarRow(253, <<"D","A","V","E","N","P","O","R","T"," ","R","D">>, <<"T","O","R","O","N","T","O">>, <<"M","5","R"," ","1","J","9">>, 4367, 7940),
       NarRow(7, <<"L","A","K","E"," ","R","D">>, <<"A","J","A","X">>, <<"L","1","S"," ","1","A","1">>, 4385, 7902),
       NarRow(5, <<"K","I","N","G"," ","S","T">>, <<"A","J","A","X">>, <<"L","1","T"," ","0","A","0">>, 4386, 7903),
       NarRow(6, <<"K","I","N","G"," ","S","T">>, <<"W","H","I","T","B","Y">>, <<"L","1","T"," ","0","A","0">>, 4387, 7894),
       NarRow(10, <<"M","A","I","N"," ","S","T">>, <<"M","A","R","A","T","H","O","N">>, <<"P","0","T"," ","2","E","0">>, 4875, 8638) >>

NarSnapshot2 ==
    NarSnapshot1 \o
    << NarRow(3, <<"P","E","N","I","N","S","U","L","A"," ","R","D">>, <<"M","A","R","A","T","H","O","N">>, <<"P","0","T"," ","2","E","0">>, 4876, 8639),
       NarRow(5, <<"K","I","N","G"," ","S","T">>, <<"W","H","I","T","B","Y">>, <<"L","1","T"," ","0","A","0">>, 4388, 7895),
       NarRow(8, <<"K","I","N","G"," ","S","T">>, <<"W","H","I","T","B","Y">>, <<"L","1","T"," ","0","A","0">>, 4389, 7896) >>

NarRows(snapshot) == IF snapshot = 1 THEN NarSnapshot1 ELSE NarSnapshot2

Range(f) == { f[i] : i \in DOMAIN f }

\* load_nar_cities: SELECT DISTINCT UPPER(city)
load_nar_cities(rows) == { Upper(r.city) : r \in Range(rows) }

(***************************************************************************)
(* Municipality resolver (IMPLEMENTATION_PHASES.md, phases 2.1 - 2.4).     *)
(* A strategy returns None (NULL) or Some([city, confidence]).  Where the  *)
(* query leaves the answer open (ORDER BY count with equal counts, LIMIT 1 *)
(* without ORDER BY, the iteration order of a set) the operator returns    *)
(* the set of answers the query can give.                                  *)
(***************************************************************************)
CityResult(c, conf) == Some([city |-> c, confidence |-> conf])

PostalConfidence == 95

ExactConfidence == 90

AmalgamationConfidence == 85

FuzzyCutoff == 85

GeocodeConfidence == 75

verify_city_by_postal(rows, postal_code) ==
    IF postal_code = <<>> THEN {NULL}
    ELSE LET postal_clean == Replace(Upper(Strip(postal_code)), <<" ">>, <<>>)
             hit(r) == Replace(Upper(r.zipcode), <<" ">>, <<>>) = postal_clean
             count(c) == Cardinality({ i \in DOMAIN rows : hit(rows[i]) /\ rows[i].city = c })
             cities == { r.city : r \in { q \in Range(rows) : hit(q) } }
         IN  IF Len(postal_clean) # 6 THEN {NULL}
             ELSE IF cities = {} THEN {NULL}
             ELSE { CityResult(c, PostalConfidence) :
                      c \in { c \in cities : \A d \in cities : count(c) >= count(d) } }

\* an exact match that does not look the city up in the reference store
verify_city_exact_unchecked(city, nar_cities) ==
    IF city = <<>> THEN NULL
    ELSE CityResult(Upper(Strip(city)), ExactConfidence)

verify_city_exact(city, nar_cities) ==
    IF city = <<>> THEN NULL
    ELSE LET city_upper == Upper(Strip(city))
         IN  IF city_upper \in nar_cities THEN CityResult(city_upper, ExactConfidence)
             ELSE NULL

CITY_AMALGAMATIONS ==
    << <<<<"T","O","R","O","N","T","O">>, <<<<"E","T","O","B","I","C","O","K","E">>, <<"N","O","R","T","H"," ","Y","O","R","K">>, <<"S","C","A","R","B","O","R","O","U","G","H">>, <<"Y","O","R","K">>, <<"E","A","S","T"," ","Y","O","R","K">>>> >>,
       <<<<"O","T","T","A","W","A">>, <<<<"N","E","P","E","A","N">>, <<"G","L","O","U","C","E","S","T","E","R">>, <<"K","A","N","A","T","A">>, <<"O","R","L","E","A","N","S">>, <<"V","A","N","I","E","R">>,
                      <<"C","U","M","B","E","R","L","A","N","D">>, <<"O","S","G","O","O","D","E">>, <<"R","I","D","E","A","U">>, <<"W","E","S","T"," ","C","A","R","L","E","T","O","N">>,
                      <<"G","O","U","L","B","O","U","R","N">>, <<"R","O","C","K","C","L","I","F","F","E"," ","P","A","R","K">>>> >>,
       <<<<"H","A","M","I","L","T","O","N">>, <<<<"D","U","N","D","A","S">>, <<"F","L","A","M","B","O","R","O","U","G","H">>, <<"G","L","A","N","B","R","O","O","K">>, <<"S","T","O","N","E","Y"," ","C","R","E","E","K">>,
                        <<"A","N","C","A","S","T","E","R">>>> >>,
       <<<<"G","R","E","A","T","E","R"," ","S","U","D","B","U","R","Y">>, <<<<"S","U","D","B","U","R","Y">>, <<"V","A","L","L","E","Y"," ","E","A","S","T">>, <<"R","A","Y","S","I","D","E","-","B","A","L","F","O","U","R">>,
                               <<"O","N","A","P","I","N","G"," ","F","A","L","L","S">>, <<"W","A","L","D","E","N">>, <<"N","I","C","K","E","L"," ","C","E","N","T","R","E">>, <<"C","A","P","R","E","O","L">>>> >>,
       <<<<"C","H","A","T","H","A","M","-","K","E","N","T">>, <<<<"C","H","A","T","H","A","M">>, <<"W","A","L","L","A","C","E","B","U","R","G">>, <<"T","I","L","B","U","R","Y">>, <<"B","L","E","N","H","E","I","M">>,
                            <<"D","R","E","S","D","E","N">>, <<"R","I","D","G","E","T","O","W","N">>>> >> >>

\* AMALGAMATION_REVERSE: later entries overwrite earlier ones
InAmalgamationReverse(former) ==
    \E i \in 1..Len(CITY_AMALGAMATIONS) : former \in Range(CITY_AMALGAMATIONS[i][2])

AMALGAMATION_REVERSE(former) ==
    LET hits == { i \in 1..Len(CITY_AMALGAMATIONS) : former \in Range(CITY_AMALGAMATIONS[i][2]) }
    IN  CITY_AMALGAMATIONS[CHOOSE i \in hits : \A j \in hits : i >= j][1]

verify_city_amalgamation(city, nar_cities) ==
    IF city = <<>> THEN NULL
    ELSE LET city_upper == Upper(Strip(city))
         IN  IF InAmalgamationReverse(city_upper)
                /\ AMALGAMATION_REVERSE(city_upper) \in nar_cities
             THEN CityResult(AMALGAMATION_REVERSE(city_upper), AmalgamationConfidence)
             ELSE NULL

\* longest common subsequence: the table of the classic recurrence, row by row;
\* a row is complete when it is as long as the row above it
RECURSIVE LcsRow(_, _, _, _)
LcsRow(prev, c, t, acc) ==
    IF Len(acc) = Len(prev) THEN acc
    ELSE LET j == Len(acc) + 1
         IN  LcsRow(prev, c, t,
                    Append(acc, IF c = t[j]
                                THEN (IF j = 1 THEN 0 ELSE prev[j - 1]) + 1
                                ELSE Max(prev[j], IF j = 1 THEN 0 ELSE acc[j - 1])))

RECURSIVE LcsTable(_, _)
LcsTable(s, t) ==
    IF s = <<>> THEN [j \in 1..Len(t) |-> 0]
    ELSE LcsRow(LcsTable(SubSeq(s, 1, Len(s) - 1), t), s[Len(s)], t, <<>>)

Lcs(s, t) == IF t = <<>> THEN 0 ELSE LcsTable(s, t)[Len(t)]

\* rapidfuzz fuzz.ratio: 100 * (1 - indel / (len1 + len2)), rounded down
FuzzRatio(s, t) ==
    IF Len(s) + Len(t) = 0 THEN 100 ELSE (200 * Lcs(s, t)) \div (Len(s) + Len(t))

\* an extractOne without score_cutoff: the best candidate whatever its score
verify_city_fuzzy_best(city, nar_cities) ==
    IF city = <<>> THEN {NULL}
    ELSE LET city_upper == Upper(Strip(city))
             best == { c \in nar_cities : \A d \in nar_cities :
                          FuzzRatio(city_upper, c) >= FuzzRatio(city_upper, d) }
         IN  { CityResult(c, FuzzRatio(city_upper, c)) : c \in best }

\* a cutoff that a score of exactly 85 does not clear
verify_city_fuzzy_above(city, nar_cities) ==
    IF city = <<>> THEN {NULL}
    ELSE LET city_upper == Upper(Strip(city))
             good == { c \in nar_cities : FuzzRatio(city_upper, c) > FuzzyCutoff }
             best == { c \in good : \A d \in good :
                          FuzzRatio(city_upper, c) >= FuzzRatio(city_upper, d) }
         IN  IF good = {} THEN {NULL}
             ELSE { CityResult(c, FuzzRatio(city_upper, c)) : c \in best }

\* process.extractOne(city_upper, nar_cities, scorer=fuzz.ratio, score_cutoff=85)
verify_city_fuzzy(city, nar_cities) ==
    IF city = <<>> THEN {NULL}
    ELSE LET city_upper == Upper(Strip(city))
             good == { c \in nar_cities : FuzzRatio(city_upper, c) >= FuzzyCutoff }
             best == { c \in good : \A d \in good :
                          FuzzRatio(city_upper, c) >= FuzzRatio(city_upper, d) }
         IN  IF good = {} THEN {NULL}
             ELSE { CityResult(c, FuzzRatio(city_upper, c)) : c \in best }

\* the geocoding collaborator: locality of "address, city, ON, Canada"
GeocoderLocalities == << <<<<"O","S","H","A","W","A">>, <<"O","s","h","a","w","a">>>>, <<<<"B","O","W","M","A","N","V","I","L","L","E">>, <<"C","l","a","r","i","n","g","t","o","n">>>> >>

verify_city_via_google(address, city) ==
    LET hits == { i \in 1..Len(GeocoderLocalities) :
                    Contains(Upper(city), GeocoderLocalities[i][1]) }
    IN  IF hits = {} THEN NULL
        ELSE Some(GeocoderLocalities[CHOOSE i \in hits : \A j \in hits : i <= j][2])

(***************************************************************************)
(* Range expander and address matcher (IMPLEMENTATION_PHASES.md, phases    *)
(* 2.5 and 2.6).                                                           *)
(***************************************************************************)
\* [str(n) for n in range(start, end + 1)]
RECURSIVE RangeStrs(_, _)
RangeStrs(start, end) ==
    IF start > end THEN <<>> ELSE <<IntToStr(start)>> \o RangeStrs(start + 1, end)

expand_address_range(house_number) ==
    IF house_number = <<>> THEN <<>>
    ELSE LET normalized == Replace(Strip(house_number), <<" ","-"," ">>, <<"-">>)
             parts == SplitOn(normalized, "-")
         IN  IF ~ Contains(normalized, <<"-">>) THEN <<house_number>>
             ELSE IF Len(parts) # 2 THEN <<house_number>>
             ELSE IF IsInt(Strip(parts[1])) /\ IsInt(Strip(parts[2]))
             THEN RangeStrs(ParseInt(Strip(parts[1])), ParseInt(Strip(parts[2])))
             ELSE <<house_number>>

\* rows answering the query of validate_address_in_nar for one candidate number
NarAddressHits(rows, number, road, city_verified) ==
    { i \in DOMAIN rows :
        /\ IntToStr(rows[i].number) = number
        /\ Contains(Upper(rows[i].street), Strip(Upper(road)))
        /\ Upper(rows[i].city) = city_verified }

NarMatch(number, row) ==
    Some([house_number |-> number, city |-> row.city, postal_code |-> row.zipcode,
          latitude |-> row.latitude, longitude |-> row.longitude, confidence |-> 100])

\* a loop that does not return at the first hit
QueriedAllCandidates(rows, house_number, road, city_verified) ==
    expand_address_range(house_number)

\* candidates that are queried before the loop returns
QueriedCandidates(rows, house_number, road, city_verified) ==
    LET candidates == expand_address_range(house_number)
        found == { k \in 1..Len(candidates) :
                     NarAddressHits(rows, candidates[k], road, city_verified) # {} }
    IN  IF found = {} THEN candidates
        ELSE SubSeq(candidates, 1, CHOOSE k \in found : \A l \in found : k <= l)

\* house_number and city_verified are Optional text, road is text;
\* LIMIT 1 without ORDER BY: any of the rows that answer the query
validate_address_in_nar(rows, house_number, road, city_verified) ==
    IF \/ IsNull(house_number) \/ Val(house_number) = <<>>
       \/ road = <<>>
       \/ IsNull(city_verified) \/ Val(city_verified) = <<>>
    THEN {NULL}
    ELSE LET tried == QueriedCandidates(rows, Val(house_number), road, Val(city_verified))
             last == IF tried = <<>> THEN {}
                     ELSE NarAddressHits(rows, tried[Len(tried)], road, Val(city_verified))
         IN  IF last = {} THEN {NULL}
             ELSE { NarMatch(tried[Len(tried)], rows[i]) : i \in last }

(***************************************************************************)
(* standardize_address (IMPLEMENTATION_PHASES.md, phase 2.7), one operator *)
(* per block of the workflow.  parsed_address has postcode_parsed,         *)
(* city_parsed, house_number (Optional text) and road (text).              *)
(***************************************************************************)
InitialResult ==
    [city_verification_method |-> "none",
     city_verified |-> NULL,
     city_confidence |-> 0,
     address_verified |-> NULL,
     address_confidence |-> 0,
     nar_found |-> FALSE,
     nar_postal_code |-> NULL,
     nar_latitude |-> NULL,
     nar_longitude |-> NULL]

\* a recorder that names the strategy called last even when it had no answer
WithCityOrMethod(result, city_result, method) ==
    IF IsNull(city_result) THEN [result EXCEPT !.city_verification_method = method]
    ELSE [result EXCEPT !.city_verified = Some(Val(city_result).city),
                        !.city_confidence = Val(city_result).confidence,
                        !.city_verification_method = method]

WithCity(result, city_result, method) ==
    IF IsNull(city_result) THEN result
    ELSE [result EXCEPT !.city_verified = Some(Val(city_result).city),
                        !.city_confidence = Val(city_result).confidence,
                        !.city_verification_method = method]

\* if parsed_address.get('postcode_parsed')
PostalGuard(result, parsed_address) == Truthy(parsed_address.postcode_parsed)

\* a guard that only asks for the city hint
CityHintGuard(result, parsed_address) == Truthy(parsed_address.city_parsed)

\* if not result['city_verified'] and parsed_address.get('city_parsed')
CityGuard(result, parsed_address) ==
    ~ Truthy(result.city_verified) /\ Truthy(parsed_address.city_parsed)

\* 1a. Try postal code
TryPostalCode(result, parsed_address, rows) ==
    IF PostalGuard(result, parsed_address)
    THEN { WithCity(result, cr, "postal_code") :
             cr \in verify_city_by_postal(rows, Val(parsed_address.postcode_parsed)) }
    ELSE {result}

\* a verify_city_by_postal that sends its query for every non-empty postal code
PostalQueriesUnchecked(result, parsed_address) ==
    IF PostalGuard(result, parsed_address) THEN 1 ELSE 0

\* number of postal-code queries block 1a sends to the reference store:
\* verify_city_by_postal returns before its query unless six characters remain
PostalQueries(result, parsed_address) ==
    IF /\ PostalGuard(result, parsed_address)
       /\ Len(Replace(Upper(Strip(Val(parsed_address.postcode_parsed))), <<" ">>, <<>>)) = 6
    THEN 1 ELSE 0

\* 1b. Try exact match
TryExactMatch(result, parsed_address, rows) ==
    IF CityGuard(result, parsed_address)
    THEN { WithCity(result,
                    verify_city_exact(Val(parsed_address.city_parsed), load_nar_cities(rows)),
                    "exact_match") }
    ELSE {result}

\* 1c. Try amalgamation
TryAmalgamation(result, parsed_address, rows) ==
    IF CityGuard(result, parsed_address)
    THEN { WithCity(result,
                    verify_city_amalgamation(Val(parsed_address.city_parsed),
                                             load_nar_cities(rows)),
                    "amalgamation") }
    ELSE {result}

\* 1d. Try fuzzy match
TryFuzzy(result, parsed_address, rows) ==
    IF CityGuard(result, parsed_address)
    THEN { WithCity(result, cr, "fuzzy") :
             cr \in verify_city_fuzzy(Val(parsed_address.city_parsed), load_nar_cities(rows)) }
    ELSE {result}

\* Step 5 of the city waterfall (COMPREHENSIVE_ADDRESS_STANDARDIZATION_PLAN.md):
\* Google geocoding as the last resort, confidence 75
TryGeocode(result, parsed_address, rows) ==
    IF CityGuard(result, parsed_address)
    THEN LET g == verify_city_via_google(parsed_address.road, Val(parsed_address.city_parsed))
         IN  { WithCity(result,
                        IF IsNull(g) THEN NULL ELSE CityResult(Val(g), GeocodeConfidence),
                        "geocode") }
    ELSE {result}

MinCityConfidence == 85

\* a guard that proceeds to address validation with any verified city
AnyVerifiedCity(result) == Truthy(result.city_verified)

\* STEP 2 guard
ShouldValidateAddress(result) ==
    Truthy(result.city_verified) /\ result.city_confidence >= MinCityConfidence

\* a STEP 2 that keeps the address confidence at 0 when no row is found
ValidateAddressFoundOnly(result, parsed_address, rows) ==
    IF ShouldValidateAddress(result)
    THEN { IF ~ IsNull(nar_result)
           THEN [result EXCEPT
                   !.nar_found = TRUE,
                   !.address_verified =
                       Some(Val(nar_result).house_number \o <<" ">> \o parsed_address.road),
                   !.address_confidence = Val(nar_result).confidence,
                   !.nar_postal_code = Some(Val(nar_result).postal_code),
                   !.nar_latitude = Some(Val(nar_result).latitude),
                   !.nar_longitude = Some(Val(nar_result).longitude)]
           ELSE result :
             nar_result \in validate_address_in_nar(rows, parsed_address.house_number,
                                                    parsed_address.road,
                                                    result.city_verified) }
    ELSE {result}

\* STEP 2: Validate Address (if city verified)
ValidateAddress(result, parsed_address, rows) ==
    IF ShouldValidateAddress(result)
    THEN { IF ~ IsNull(nar_result)
           THEN [result EXCEPT
                   !.nar_found = TRUE,
                   !.address_verified =
                       Some(Val(nar_result).house_number \o <<" ">> \o parsed_address.road),
                   !.address_confidence = Val(nar_result).confidence,
                   !.nar_postal_code = Some(Val(nar_result).postal_code),
                   !.nar_latitude = Some(Val(nar_result).latitude),
                   !.nar_longitude = Some(Val(nar_result).longitude)]
           ELSE [result EXCEPT !.address_confidence = result.city_confidence] :
             nar_result \in validate_address_in_nar(rows, parsed_address.house_number,
                                                    parsed_address.road,
                                                    result.city_verified) }
    ELSE {result}

\* number of street-level queries STEP 2 sends to the reference store
StreetQueries(result, parsed_address, rows) ==
    IF /\ ShouldValidateAddress(result)
       /\ Truthy(parsed_address.house_number)
       /\ parsed_address.road # <<>>
    THEN Len(QueriedCandidates(rows, Val(parsed_address.house_number),
                               parsed_address.road, Val(result.city_verified)))
    ELSE 0

\* the whole workflow: the set of results it can return
standardize_address(parsed_address, rows) ==
    LET s1 == TryPostalCode(InitialResult, parsed_address, rows)
        s2 == UNION { TryExactMatch(r, parsed_address, rows) : r \in s1 }
        s3 == UNION { TryAmalgamation(r, parsed_address, rows) : r \in s2 }
        s4 == UNION { TryFuzzy(r, parsed_address, rows) : r \in s3 }
        s5 == UNION { TryGeocode(r, parsed_address, rows) : r \in s4 }
    IN  UNION { ValidateAddress(r, parsed_address, rows) : r \in s5 }

(***************************************************************************)
(* Validation cache: table nar_address_cache with the unique index         *)
(* idx_nar_cache_unique_key on (address_normalized, COALESCE(city_hint,    *)
(* ''), COALESCE(postal_code, '')).  The table is a sequence of rows.      *)
(***************************************************************************)
Coalesce(o, d) == IF IsNull(o) THEN d ELSE Val(o)

CacheKey(address_normalized, city_hint, postal_code) ==
    [address_normalized |-> address_normalized,
     city_hint |-> city_hint,
     postal_code |-> postal_code]

\* the expression list of idx_nar_cache_unique_key
CacheIndexKey(k) ==
    <<k.address_normalized, Coalesce(k.city_hint, <<>>), Coalesce(k.postal_code, <<>>)>>

\* equality of the columns themselves: NULL is equal to nothing
CachePlainConflict(row, key) ==
    /\ row.address_normalized = key.address_normalized
    /\ ~ IsNull(row.city_hint) /\ row.city_hint = key.city_hint
    /\ ~ IsNull(row.postal_code) /\ row.postal_code = key.postal_code

\* ON CONFLICT on the index: a row is in conflict with a key when the index
\* expressions are equal
CacheConflict(row, key) == CacheIndexKey(row) = CacheIndexKey(key)

\* the unique index refuses a second row with the same index expressions
CacheUniqueViolation(table, key) ==
    \E i \in DOMAIN table : CacheIndexKey(table[i]) = CacheIndexKey(key)

\* AddressMatch as the orchestrator passes it to the update policy
AddressMatch(found, number, city, postal, lat, lon, conf) ==
    [found |-> found, matched_house_number |-> number, city |-> city,
     postal_code |-> postal, latitude |-> lat, longitude |-> lon, confidence |-> conf]

LookupCountDefault == 1

\* the row INSERTed for a key and its match; lookup_count takes its DEFAULT
CacheRow(key, m) ==
    [address_normalized |-> key.address_normalized,
     city_hint |-> key.city_hint,
     postal_code |-> key.postal_code,
     nar_found |-> m.found,
     nar_city |-> m.city,
     nar_postal_code |-> m.postal_code,
     nar_latitude |-> m.latitude,
     nar_longitude |-> m.longitude,
     confidence_score |-> m.confidence,
     lookup_count |-> LookupCountDefault]

\* put: INSERT ... ON CONFLICT (index expressions) DO UPDATE
\*      SET lookup_count = lookup_count + 1; one statement, hence one step.
\* The statement fails when no row is in conflict and the index still
\* refuses the new row.
CachePutFails(table, key) ==
    /\ ~ \E i \in DOMAIN table : CacheConflict(table[i], key)
    /\ CacheUniqueViolation(table, key)

CachePut(table, key, m) ==
    IF \E i \in DOMAIN table : CacheConflict(table[i], key)
    THEN [i \in DOMAIN table |->
            IF CacheConflict(table[i], key)
            THEN [table[i] EXCEPT !.lookup_count = @ + 1]
            ELSE table[i]]
    ELSE IF CachePutFails(table, key) THEN table
    ELSE Append(table, CacheRow(key, m))

\* get: the matches stored for the key (none on a miss)
CacheGet(table, key) ==
    { AddressMatch(table[i].nar_found, NULL, table[i].nar_city, table[i].nar_postal_code,
                   table[i].nar_latitude, table[i].nar_longitude,
                   table[i].confidence_score) :
        i \in { j \in DOMAIN table : CacheConflict(table[j], key) } }

(***************************************************************************)
(* Property record (table properties) and the update policy.               *)
(***************************************************************************)
Property(address_line1, city, postal_code) ==
    [address_line1 |-> address_line1, city |-> city, postal_code |-> postal_code,
     latitude |-> NULL, longitude |-> NULL, geocode_source |-> NULL,
     city_backup |-> NULL]

\* UPDATE properties SET city_backup = city WHERE city_backup IS NULL
BackfillCityBackup(p) ==
    IF IsNull(p.city_backup) THEN [p EXCEPT !.city_backup = p.city] ELSE p

UpdateThreshold == 90

\* a gate that lets every result through
PolicyAlways(m) == m.confidence >= 0

\* a gate set at the threshold of the address matcher
PolicyAllowsFromMatchThreshold(m) == m.confidence >= MinCityConfidence

\* "Properties are updated ONLY when high confidence"
PolicyAllows(m) == m.confidence >= UpdateThreshold

\* a policy that updates the city only
PolicyTargetCityOnly(p, m) ==
    IF ~ PolicyAllows(m) THEN p
    ELSE [p EXCEPT !.city = IF Truthy(m.city) THEN m.city ELSE @]

\* a policy that also rewrites the street line with the matched civic number
PolicyTargetWithAddress(p, m) ==
    IF ~ PolicyAllows(m) THEN p
    ELSE LET coords == ~ IsNull(m.latitude) /\ ~ IsNull(m.longitude)
         IN  [p EXCEPT
                !.address_line1 = IF Truthy(m.matched_house_number)
                                  THEN m.matched_house_number ELSE @,
                !.city = IF Truthy(m.city) THEN m.city ELSE @,
                !.postal_code = IF Truthy(m.postal_code) THEN m.postal_code ELSE @,
                !.latitude = IF coords THEN m.latitude ELSE @,
                !.longitude = IF coords THEN m.longitude ELSE @,
                !.geocode_source = IF coords THEN Some("nar_query") ELSE @]

\* the values the update policy asks for, before the backup is taken
PolicyTarget(p, m) ==
    IF ~ PolicyAllows(m) THEN p
    ELSE LET coords == ~ IsNull(m.latitude) /\ ~ IsNull(m.longitude)
         IN  [p EXCEPT
                !.city = IF Truthy(m.city) THEN m.city ELSE @,
                !.postal_code = IF Truthy(m.postal_code) THEN m.postal_code ELSE @,
                !.latitude = IF coords THEN m.latitude ELSE @,
                !.longitude = IF coords THEN m.longitude ELSE @,
                !.geocode_source = IF coords THEN Some("nar_query") ELSE @]

\* the decision: is there anything to write
Mutates(p, m) == PolicyTarget(p, m) # p

\* the property after the update step: one UPDATE statement that also takes
\* the backup of the city it replaces
ApplyPolicy(p, m) ==
    IF Mutates(p, m)
    THEN [PolicyTarget(p, m) EXCEPT !.city_backup = BackfillCityBackup(p).city_backup]
    ELSE p

(***************************************************************************)
(* Resolution orchestrator: load, cache lookup, parse, resolve, match,     *)
(* cache write, update policy.                                             *)
(***************************************************************************)
ParsedFor(p) == parse_address(p.address_line1, p.city, p.postal_code)

\* the dictionary standardize_address reads
ParsedAddressDict(parsed) ==
    [house_number |-> parsed.street_number,
     road |-> parsed.street_name,
     city_parsed |-> parsed.city,
     postcode_parsed |-> parsed.postal_code]

KeyOfParsed(parsed, city_hint) ==
    CacheKey(parsed.address_clean, city_hint, parsed.postal_code)

KeyFor(p) == KeyOfParsed(ParsedFor(p), p.city)

MunicipalityResolution(result) ==
    [city |-> result.city_verified,
     confidence |-> result.city_confidence,
     method |-> result.city_verification_method]

AddressMatchOf(result) ==
    AddressMatch(result.nar_found,
                 IF IsNull(result.address_verified) THEN NULL
                 ELSE Some(Words(Val(result.address_verified))[1]),
                 result.city_verified,
                 result.nar_postal_code,
                 result.nar_latitude,
                 result.nar_longitude,
                 result.address_confidence)

\* steps 2-3: what one run can obtain for a property, as
\* [hit, resolution, match]; on a cache hit no resolution is computed
Resolutions(p, table, rows, use_cache) ==
    LET hits == IF use_cache THEN CacheGet(table, KeyFor(p)) ELSE {}
    IN  IF hits # {}
        THEN { [hit |-> TRUE, resolution |-> NULL, match |-> m] : m \in hits }
        ELSE { [hit |-> FALSE,
                resolution |-> Some(MunicipalityResolution(r)),
                match |-> AddressMatchOf(r)] :
                 r \in standardize_address(ParsedAddressDict(ParsedFor(p)), rows) }

\* step 4
CacheAfter(p, table, run, use_cache) ==
    IF use_cache /\ ~ run.hit THEN CachePut(table, KeyFor(p), run.match) ELSE table

(***************************************************************************)
(* Properties as ingestion leaves them (address_line1, city, postal_code). *)
(***************************************************************************)
Seeds ==
    << Property(Some(<<"1","5","2","1"," ","Y","o","n","g","e"," ","S","t","r","e","e","t">>), Some(<<"T","o","r","o","n","t","o">>), Some(<<"M","4","T","1","Z","2">>)),
       Property(Some(<<"5"," ","K","i","n","g"," ","S","t">>), NULL, Some(<<"L","1","T","0","A","0">>)),
       Property(Some(<<"3"," ","P","e","n","i","n","s","u","l","a"," ","R","o","a","d">>), Some(<<"M","a","r","a","t","h","o","n">>), Some(<<"P","0","T","2","E","0">>)),
       Property(Some(<<"2","5"," ","K","i","n","g"," ","S","t">>), Some(<<"Y","o","r","k">>), NULL),
       Property(Some(<<"7"," ","L","a","k","e"," ","R","d">>), Some(<<"A","j","a","x","x">>), NULL),
       Property(Some(<<"1"," ","S","i","m","c","o","e"," ","S","t">>), Some(<<"O","s","h","a","w","a">>), NULL),
       Property(NULL, Some(<<"T","o","r","o","n","t","o">>), NULL),
       Property(Some(<<"2","5","1","-","2","5","5"," ","D","a","v","e","n","p","o","r","t"," ","R","o","a","d">>), Some(<<"T","o","r","o","n","t","o"," ","(","Y","o","r","k",")">>), Some(<<"M","5","R">>)),
       Property(Some(<<"9"," ","E","l","m"," ","S","t">>), Some(<<"N","o","w","h","e","r","e">>), NULL),
       Property(Some(<<"7"," ","L","a","k","e"," ","R","d"," ","#","4">>), Some(<<"A","J","A","X">>), Some(<<"L","1","S"," ","1","A","1">>)),
       Property(Some(<<"5"," ","K","i","n","g"," ","S","t">>), Some(<<"A","J","A","X">>), Some(<<"L","1","T"," ","0","A","0">>)),
       Property(Some(<<"3"," ","P","e","n","i","n","s","u","l","a"," ","R","o","a","d">>), NULL, Some(<<"P","0","T","2","E","0">>)),
       Property(Some(<<"2","5","3"," ","D","a","v","e","n","p","o","r","t"," ","R","o","a","d">>), Some(<<"Y","o","r","k">>), NULL) >>

NarSnapshots == {1, 2}

(***************************************************************************)
(* SpecResolve: one run of standardize_address, block by block.  rs holds  *)
(* the input, the position in the workflow, the result dictionary, the     *)
(* strategies called so far and the street-level queries sent.             *)
(***************************************************************************)
Blocks == <<"postal_code", "exact_match", "amalgamation", "fuzzy", "geocode">>

\* parsed addresses as standardize_address receives them, with the house
\* number still a range
ParsedSeeds ==
    { [house_number |-> Some(<<"2","5","1","-","2","5","5">>), road |-> <<"D","A","V","E","N","P","O","R","T"," ","R","D">>,
       city_parsed |-> Some(<<"T","o","r","o","n","t","o">>), postcode_parsed |-> Some(<<"M","5","R"," ","1","J","9">>)],
      [house_number |-> Some(<<"8"," ","-"," ","1","4">>), road |-> <<"K","I","N","G"," ","S","T">>,
       city_parsed |-> Some(<<"W","h","i","t","b","y">>), postcode_parsed |-> NULL],
      [house_number |-> Some(<<"4","-","7">>), road |-> <<"K","I","N","G"," ","S","T">>,
       city_parsed |-> Some(<<"W","h","i","t","b","y">>), postcode_parsed |-> NULL],
      [house_number |-> Some(<<"2","5","5","-","2","5","1">>), road |-> <<"D","A","V","E","N","P","O","R","T"," ","R","D">>,
       city_parsed |-> Some(<<"T","o","r","o","n","t","o">>), postcode_parsed |-> NULL],
      [house_number |-> Some(<<"1","5","2","1">>), road |-> <<"Y","O","N","G","E"," ","S","T">>,
       city_parsed |-> Some(<<"T","o","r","o","n","t","a">>), postcode_parsed |-> NULL],
      [house_number |-> Some(<<"6">>), road |-> <<"K","I","N","G"," ","S","T">>,
       city_parsed |-> Some(<<"W","h","i","t","b","e">>), postcode_parsed |-> NULL],
      [house_number |-> Some(<<"1","0">>), road |-> <<"M","A","I","N"," ","S","T">>,
       city_parsed |-> Some(<<"M","a","r","a","t","h","o","n">>), postcode_parsed |-> Some(<<"P","0","T"," ","2","E">>)],
      [house_number |-> Some(<<"1","0">>), road |-> <<"M","A","I","N"," ","S","T">>,
       city_parsed |-> Some(<<"M","a","r","a","t","h","o","n">>), postcode_parsed |-> Some(<<"P","0","T","-","2","E">>)] }

ResolveInputs ==
    { ParsedAddressDict(ParsedFor(Seeds[i])) : i \in 1..Len(Seeds) } \cup ParsedSeeds

InitResolve ==
    /\ nar \in NarSnapshots
    /\ \E input \in ResolveInputs :
         rs = [input |-> input,
               pc |-> 1,
               result |-> InitialResult,
               tried |-> <<>>,
               postal_queries |-> 0,
               street_queries |-> 0]
    /\ props = <<>> /\ queue = <<>> /\ workers = <<>> /\ cache = <<>>
    /\ enable_cache = TRUE /\ hist = <<>> /\ putters = <<>>

ResolveFrame == UNCHANGED <<props, queue, workers, cache, nar, enable_cache, hist, putters>>

\* rs after block k returned r; called tells whether the block's guard let the
\* strategy run
AfterBlock(k, r, called) ==
    [rs EXCEPT !.result = r,
               !.pc = k + 1,
               !.tried = IF called THEN Append(@, Blocks[k]) ELSE @]

RunPostalCode ==
    /\ rs.pc = 1
    /\ \E r \in TryPostalCode(rs.result, rs.input, NarRows(nar)) :
         rs' = [AfterBlock(1, r, PostalGuard(rs.result, rs.input))
                  EXCEPT !.postal_queries = PostalQueries(rs.result, rs.input)]
    /\ ResolveFrame

RunExactMatch ==
    /\ rs.pc = 2
    /\ \E r \in TryExactMatch(rs.result, rs.input, NarRows(nar)) :
         rs' = AfterBlock(2, r, CityGuard(rs.result, rs.input))
    /\ ResolveFrame

RunAmalgamation ==
    /\ rs.pc = 3
    /\ \E r \in TryAmalgamation(rs.result, rs.input, NarRows(nar)) :
         rs' = AfterBlock(3, r, CityGuard(rs.result, rs.input))
    /\ ResolveFrame

RunFuzzy ==
    /\ rs.pc = 4
    /\ \E r \in TryFuzzy(rs.result, rs.input, NarRows(nar)) :
         rs' = AfterBlock(4, r, CityGuard(rs.result, rs.input))
    /\ ResolveFrame

RunGeocode ==
    /\ rs.pc = 5
    /\ \E r \in TryGeocode(rs.result, rs.input, NarRows(nar)) :
         rs' = AfterBlock(5, r, CityGuard(rs.result, rs.input))
    /\ ResolveFrame

RunValidateAddress ==
    /\ rs.pc = Len(Blocks) + 1
    /\ \E r \in ValidateAddress(rs.result, rs.input, NarRows(nar)) :
         rs' = [rs EXCEPT !.result = r,
                          !.pc = Len(Blocks) + 2,
                          !.street_queries =
                              StreetQueries(rs.result, rs.input, NarRows(nar))]
    /\ ResolveFrame

NextResolve ==
    \/ RunPostalCode
    \/ RunExactMatch
    \/ RunAmalgamation
    \/ RunFuzzy
    \/ RunGeocode
    \/ RunValidateAddress

SpecResolve == InitResolve /\ [][NextResolve]_vars

ResolveDone == rs.pc = Len(Blocks) + 2

CityResolved == rs.pc > Len(Blocks)

(***************************************************************************)
(* Properties of the cascade and of the matcher guard (SpecResolve).       *)
(***************************************************************************)
\* what strategy k can answer for the input, straight from the verify functions
StrategyAnswers(k, input, rows) ==
    LET hint == IF Truthy(input.city_parsed) THEN Val(input.city_parsed) ELSE <<>>
        g == verify_city_via_google(input.road, hint)
    IN  CASE k = 1 -> IF Truthy(input.postcode_parsed)
                      THEN verify_city_by_postal(rows, Val(input.postcode_parsed)) \ {NULL}
                      ELSE {}
          [] k = 2 -> {verify_city_exact(hint, load_nar_cities(rows))} \ {NULL}
          [] k = 3 -> {verify_city_amalgamation(hint, load_nar_cities(rows))} \ {NULL}
          [] k = 4 -> verify_city_fuzzy(hint, load_nar_cities(rows)) \ {NULL}
          [] k = 5 -> IF hint = <<>> \/ IsNull(g) THEN {} ELSE {CityResult(Val(g), 75)}

BlockIndex(method) == CHOOSE k \in 1..Len(Blocks) : Blocks[k] = method

Candidates == 
    IF Truthy(rs.input.house_number)
    THEN expand_address_range(Val(rs.input.house_number)) ELSE <<>>

Supported ==
    IF rs.input.road = <<>> THEN {}
    ELSE { k \in 1..Len(Candidates) :
             \E i \in DOMAIN NarRows(nar) :
                /\ IntToStr(NarRows(nar)[i].number) = Candidates[k]
                /\ Contains(Upper(NarRows(nar)[i].street), Strip(Upper(rs.input.road)))
                /\ Upper(NarRows(nar)[i].city) = Val(rs.result.city_verified) }

FirstSupported == CHOOSE k \in Supported : \A l \in Supported : k <= l

MatcherRan == ResolveDone /\ ShouldValidateAddress(rs.result)

C20_WitnessNotFound ==
    /\ MatcherRan
    /\ Len(Candidates) = 7
    /\ Supported = {}
    /\ rs.result.address_confidence = 90

\* the similarity of the city hint to a city of the reference store
HintScore(c) == FuzzRatio(Upper(Strip(Val(rs.input.city_parsed))), c)

FuzzyCalled == \E i \in 1..Len(rs.tried) : rs.tried[i] = "fuzzy"

FuzzyBlockDone == rs.pc > 4 /\ FuzzyCalled

C21_WitnessBelow ==
    /\ CityResolved
    /\ rs.input.city_parsed = Some(<<"W","h","i","t","b","e">>)
    /\ HintScore(<<"W","H","I","T","B","Y">>) = 83
    /\ rs.result.city_verification_method = "none"
    /\ IsNull(rs.result.city_verified)

\* positions of the reference rows with the postal code of the input
PostalRows ==
    { i \in DOMAIN NarRows(nar) :
        Replace(Upper(NarRows(nar)[i].zipcode), <<" ">>, <<>>) =
            Replace(Upper(Strip(Val(rs.input.postcode_parsed))), <<" ">>, <<>>) }

PostalCount(c) == Cardinality({ i \in PostalRows : NarRows(nar)[i].city = c })

FirstSeen(c) == CHOOSE i \in PostalRows :
                    /\ NarRows(nar)[i].city = c
                    /\ \A j \in PostalRows : NarRows(nar)[j].city = c => i <= j

\* C22: the postal_code strategy returns the city with the highest row count
\* for the normalized postal code, and among cities that tie for the highest
\* count the one seen first in the reference store.
C22_PostalMajorityFirstSeen ==
    (rs.pc > 1 /\ rs.result.city_verification_method = "postal_code") =>
        LET city == Val(rs.result.city_verified)
            cities == { NarRows(nar)[i].city : i \in PostalRows }
        IN  /\ city \in cities
            /\ \A d \in cities : PostalCount(d) <= PostalCount(city)
            /\ \A d \in cities :
                   PostalCount(d) = PostalCount(city) => FirstSeen(city) <= FirstSeen(d)

\* the part of C22 that the query guarantees: a city with the highest count
PostalMajority ==
    (rs.pc > 1 /\ rs.result.city_verification_method = "postal_code") =>
        LET city == Val(rs.result.city_verified)
            cities == { NarRows(nar)[i].city : i \in PostalRows }
        IN  /\ city \in cities
            /\ \A d \in cities : PostalCount(d) <= PostalCount(city)

\* C23: in the MunicipalityResolution of standardize_address the city is absent
\* if and only if the method is none and the confidence is 0; every other
\* method carries a city and a confidence above 0.
C23_AbsentIffNone ==
    LET res == MunicipalityResolution(rs.result)
    IN  /\ ~ Truthy(res.city) <=> (res.method = "none" /\ res.confidence = 0)
        /\ res.method # "none" => (Truthy(res.city) /\ res.confidence > 0)
        /\ res.method \in Range(Blocks) \cup {"none"}

\* Nowhere: exact_match, amalgamation, fuzzy and geocode were called and none
\* had an answer
C23_Witness ==
    /\ CityResolved
    /\ rs.tried = <<"exact_match", "amalgamation", "fuzzy", "geocode">>
    /\ MunicipalityResolution(rs.result) = [city |-> NULL, confidence |-> 0, method |-> "none"]

\* a resolution by the last strategy carries its city and confidence 75
C23_WitnessGeocode ==
    /\ CityResolved
    /\ MunicipalityResolution(rs.result) =
           [city |-> Some(<<"O","s","h","a","w","a">>), confidence |-> 75, method |-> "geocode"]

\* the postal hint as verify_city_by_postal cleans it
PostalClean == Replace(Upper(Strip(Val(rs.input.postcode_parsed))), <<" ">>, <<>>)

SixAlnum(text) == Len(text) = 6 /\ \A i \in 1..Len(text) : IsAlnum(text[i])

\* the resolver treats the postal hint as absent: no postal-code query, no
\* resolution by postal_code, exact_match called next when there is a city
\* hint, and a result the workflow can return for the input without the hint
PostalTreatedAsAbsent ==
    /\ rs.postal_queries = 0
    /\ rs.result.city_verification_method # "postal_code"
    /\ (rs.pc > 2 /\ Truthy(rs.input.city_parsed)) =>
           (Len(rs.tried) >= 2 /\ rs.tried[2] = "exact_match")
    /\ ResolveDone =>
           rs.result \in standardize_address([rs.input EXCEPT !.postcode_parsed = NULL],
                                             NarRows(nar))

\* C25 as stated: a postal hint that does not reduce to exactly 6 alphanumeric
\* characters after whitespace is stripped is treated as absent by the
\* resolver.
C25_NonSixAlnumIsAbsent ==
    (Truthy(rs.input.postcode_parsed) /\ ~ SixAlnum(PostalClean)) => PostalTreatedAsAbsent

\* C25 (amended): a postal hint that does not reduce to exactly 6 characters
\* after it is stripped and its spaces are removed is treated as absent by the
\* resolver: the postal_code strategy sends no query for it and the cascade
\* proceeds from exact_match on the city hint.
C25_NonSixCharsIsAbsent ==
    (Truthy(rs.input.postcode_parsed) /\ Len(PostalClean) # 6) => PostalTreatedAsAbsent

\* P0T 2E (5 characters) with city Marathon: no postal query, MARATHON by
\* exact_match at 90
C25_Witness ==
    /\ ResolveDone
    /\ rs.input.postcode_parsed = Some(<<"P","0","T"," ","2","E">>)
    /\ rs.postal_queries = 0
    /\ rs.tried = <<"postal_code", "exact_match">>
    /\ rs.result.city_verification_method = "exact_match"
    /\ rs.result.city_verified = Some(<<"M","A","R","A","T","H","O","N">>)

\* P0T-2E keeps 6 characters, one of them a hyphen: the query is sent
C25_WitnessHyphen ==
    /\ rs.pc > 1
    /\ rs.input.postcode_parsed = Some(<<"P","0","T","-","2","E">>)
    /\ rs.postal_queries = 1
    /\ rs.result.city_verification_method = "none"

(***************************************************************************)
(* SpecCache: NumPutters workers that each computed a miss for a property  *)
(* and now write the result; every put is one statement.  putters[w] holds *)
(* the property whose key the worker writes, whether the statement has run *)
(* and whether it raised an error.                                         *)
(***************************************************************************)
NumPutters == 3

Putters == 1..NumPutters

\* keys with both hints, without a city hint and without a postal hint
PutSeeds == {1, 2, 4}

\* what a worker is about to write: the key of a property and a match computed
\* for it on a miss
PutJobs ==
    UNION { { [key |-> KeyFor(Seeds[i]), match |-> run.match,
               done |-> FALSE, error |-> FALSE] :
                run \in Resolutions(Seeds[i], <<>>, NarRows(1), FALSE) } :
            i \in PutSeeds }

InitCache ==
    /\ cache = <<>>
    /\ nar = 1
    /\ enable_cache = TRUE
    /\ putters \in [Putters -> PutJobs]
    /\ props = <<>> /\ queue = <<>> /\ workers = <<>> /\ hist = <<>> /\ rs = <<>>

Put(w) ==
    /\ ~ putters[w].done
    /\ cache' = CachePut(cache, putters[w].key, putters[w].match)
    /\ putters' = [putters EXCEPT ![w].done = TRUE,
                                  ![w].error = CachePutFails(cache, putters[w].key)]
    /\ UNCHANGED <<props, queue, workers, nar, enable_cache, hist, rs>>

NextCache == \E w \in Putters : Put(w)

SpecCache == InitCache /\ [][NextCache]_vars

\* C5: N concurrent puts for one key leave exactly one entry for the key, with
\* a hit count of N, and no put fails with a conflict error.
C5_PutsMerge ==
    /\ \A w \in Putters : ~ putters[w].error
    /\ \A v \in Putters :
         LET n == Cardinality({ w \in Putters :
                                  putters[w].done /\ putters[w].key = putters[v].key })
             entries == { i \in DOMAIN cache :
                            /\ cache[i].address_normalized = putters[v].key.address_normalized
                            /\ cache[i].city_hint = putters[v].key.city_hint
                            /\ cache[i].postal_code = putters[v].key.postal_code }
         IN  n > 0 => /\ Cardinality(entries) = 1
                      /\ \A i \in entries : cache[i].lookup_count = n

\* every worker has written the same key, one without a city hint
C5_Witness ==
    /\ \A w \in Putters : putters[w].done /\ putters[w].key = putters[1].key
    /\ Len(cache) = 1
    /\ IsNull(cache[1].city_hint)
    /\ cache[1].lookup_count = NumPutters

(***************************************************************************)
(* SpecApply: repeated runs of resolve_and_apply on one property, each run *)
(* a whole (steps 1 to 5), with the reference store replaced at most once  *)
(* in between.  hist remembers the last two runs, the number of runs and   *)
(* of mutations, and the city the property held before its first mutation. *)
(***************************************************************************)
MaxRuns == 3

\* the input fields a run loads from the property
InputOf(p) ==
    [address_line1 |-> p.address_line1, city |-> p.city, postal_code |-> p.postal_code]

RunRecord(p, snapshot, run) ==
    [input |-> InputOf(p),
     snapshot |-> snapshot,
     hit |-> run.hit,
     resolution |-> run.resolution,
     match |-> run.match,
     before |-> p,
     after |-> ApplyPolicy(p, run.match)]

NoHistory ==
    [runs |-> 0, mutations |-> 0, first_prior_city |-> NULL, last |-> NULL, prev |-> NULL]

HistoryAfter(h, rec) ==
    [runs |-> h.runs + 1,
     mutations |-> IF rec.after # rec.before THEN h.mutations + 1 ELSE h.mutations,
     first_prior_city |-> IF rec.after # rec.before /\ h.mutations = 0
                          THEN rec.before.city ELSE h.first_prior_city,
     last |-> Some(rec),
     prev |-> h.last]

InitApply ==
    /\ \E i \in 1..Len(Seeds) :
         \/ props = <<Seeds[i]>>
         \/ props = <<BackfillCityBackup(Seeds[i])>>
    /\ cache = <<>>
    /\ nar = 1
    /\ enable_cache \in BOOLEAN
    /\ hist = <<NoHistory>>
    /\ queue = <<>> /\ workers = <<>> /\ rs = <<>> /\ putters = <<>>

\* resolve_and_apply(property_id), steps 1 to 5
ResolveAndApply(id) ==
    /\ hist[id].runs < MaxRuns
    /\ \E run \in Resolutions(props[id], cache, NarRows(nar), enable_cache) :
         /\ props' = [props EXCEPT ![id] = ApplyPolicy(props[id], run.match)]
         /\ cache' = CacheAfter(props[id], cache, run, enable_cache)
         /\ hist' = [hist EXCEPT ![id] = HistoryAfter(@, RunRecord(props[id], nar, run))]
    /\ UNCHANGED <<queue, workers, nar, enable_cache, rs, putters>>

\* the annual NAR update replaces data/nar/addresses.geo.parquet
RefreshNAR ==
    /\ nar = 1
    /\ nar' = 2
    /\ UNCHANGED <<props, queue, workers, cache, enable_cache, hist, rs, putters>>

NextApply ==
    \/ \E id \in DOMAIN props : ResolveAndApply(id)
    \/ RefreshNAR

SpecApply == InitApply /\ [][NextApply]_vars

(***************************************************************************)
(* Properties of the update policy (SpecApply).                            *)
(***************************************************************************)
LastRun(id) == Val(hist[id].last)

PrevRun(id) == Val(hist[id].prev)

C2_BackupIsFirstPriorCity ==
    \A id \in DOMAIN props :
        hist[id].mutations >= 1 => props[id].city_backup = hist[id].first_prior_city

\* what two runs are compared on: the match (a cached match carries no house
\* number), the resolution when both runs computed one, and the decision
RunOutcome(rec) ==
    [match |-> [rec.match EXCEPT !.matched_house_number = NULL],
     mutate |-> rec.match.confidence >= 90,
     city |-> PolicyTarget(rec.before, rec.match).city,
     postal_code |-> PolicyTarget(rec.before, rec.match).postal_code,
     latitude |-> PolicyTarget(rec.before, rec.match).latitude,
     longitude |-> PolicyTarget(rec.before, rec.match).longitude]

NoStreetMatch(rec) ==
    /\ ~ rec.hit
    /\ Val(rec.resolution).confidence >= 90
    /\ ~ rec.match.found

MutableFields ==
    {"city", "postal_code", "latitude", "longitude", "geocode_source", "city_backup"}

ReportRowCityAfter(id) ==
    [city_before |-> LastRun(id).before.city,
     postal_before |-> LastRun(id).before.postal_code,
     nar_city |-> LastRun(id).match.city,
     nar_postal |-> LastRun(id).match.postal_code,
     confidence |-> LastRun(id).match.confidence,
     found |-> LastRun(id).match.found,
     city_final |-> LastRun(id).match.city,
     postal_final |-> props[id].postal_code,
     latitude |-> props[id].latitude,
     longitude |-> props[id].longitude]

\* the corrected report: BEFORE VALIDATION, NAR RESULT, AFTER VALIDATION (FINAL)
ReportRow(id) ==
    [city_before |-> LastRun(id).before.city,
     postal_before |-> LastRun(id).before.postal_code,
     nar_city |-> LastRun(id).match.city,
     nar_postal |-> LastRun(id).match.postal_code,
     confidence |-> LastRun(id).match.confidence,
     found |-> LastRun(id).match.found,
     city_final |-> props[id].city,
     postal_final |-> props[id].postal_code,
     latitude |-> props[id].latitude,
     longitude |-> props[id].longitude]

C18_WitnessNoCity ==
    \E id \in DOMAIN props :
        /\ hist[id].runs > 0
        /\ IsNull(ReportRow(id).nar_city)
        /\ ~ IsNull(ReportRow(id).city_final)
        /\ ReportRow(id).city_final = props[id].city

\* the update step of the run wrote the city of the match to the property
CityWritten(rec) ==
    /\ Truthy(rec.match.city)
    /\ rec.after.city = rec.match.city
    /\ rec.match.confidence >= UpdateThreshold

C27_WitnessGeocode ==
    \E id \in DOMAIN props :
        /\ hist[id].runs > 0
        /\ ~ LastRun(id).hit
        /\ Val(LastRun(id).resolution).method = "geocode"
        /\ LastRun(id).match.confidence = 0
        /\ props[id] = LastRun(id).before

\* C28: every city the update step writes to a property is a city of the
\* reference store the run resolved against, whichever strategy produced it.
C28_WrittenCityIsReferenceCity ==
    \A id \in DOMAIN props :
        (hist[id].runs > 0 /\ CityWritten(LastRun(id))) =>
            /\ props[id].city = LastRun(id).match.city
            /\ Val(props[id].city) \in load_nar_cities(NarRows(LastRun(id).snapshot))

\* a property without a street line whose city Toronto is found by exact_match:
\* TORONTO, a city of the store, is written
C28_Witness ==
    \E id \in DOMAIN props :
        /\ hist[id].runs > 0
        /\ ~ LastRun(id).hit
        /\ Val(LastRun(id).resolution).method = "exact_match"
        /\ CityWritten(LastRun(id))
        /\ LastRun(id).before.city = Some(<<"T","o","r","o","n","t","o">>)
        /\ props[id].city = Some(<<"T","O","R","O","N","T","O">>)
        /\ <<"T","O","R","O","N","T","O">> \in load_nar_cities(NarRows(nar))

\* the strategies behind the written cities of the model
C28_WitnessFuzzy ==
    \E id \in DOMAIN props :
        /\ hist[id].runs > 0
        /\ ~ LastRun(id).hit
        /\ Val(LastRun(id).resolution).method = "fuzzy"
        /\ CityWritten(LastRun(id))

C28_WitnessPostal ==
    \E id \in DOMAIN props :
        /\ hist[id].runs > 0
        /\ ~ LastRun(id).hit
        /\ Val(LastRun(id).resolution).method = "postal_code"
        /\ CityWritten(LastRun(id))

C28_WitnessAmalgamation ==
    \E id \in DOMAIN props :
        /\ hist[id].runs > 0
        /\ ~ LastRun(id).hit
        /\ Val(LastRun(id).resolution).method = "amalgamation"
        /\ CityWritten(LastRun(id))

\* the properties a cache miss for the same input can leave: parse, expand,
\* resolve and match recomputed against the store, then the update policy
Recomputed(p, rows) ==
    { ApplyPolicy(p, run.match) : run \in Resolutions(p, <<>>, rows, FALSE) }

\* a run served from the cache while the reference store is the one every
\* earlier run resolved against
HitOnUnchangedStore(id) ==
    /\ hist[id].runs > 0
    /\ LastRun(id).hit
    /\ nar = 1

\* C29: for an unchanged reference store, the update policy applied to a
\* cached AddressMatch leaves the property as a recomputation of parse, expand,
\* resolve and match for the same key would leave it.
C29_HitEqualsMiss ==
    \A id \in DOMAIN props :
        HitOnUnchangedStore(id) =>
            Recomputed(LastRun(id).before, NarRows(nar)) = {LastRun(id).after}

\* the part of C29 the code guarantees: the hit leaves the property as one of
\* the outcomes a recomputation can have
HitIsOneRecomputation ==
    \A id \in DOMAIN props :
        HitOnUnchangedStore(id) =>
            LastRun(id).after \in Recomputed(LastRun(id).before, NarRows(nar))

\* a recomputation has more than one outcome only for the postal code whose
\* rows are tied between two cities
RecomputationOpenOnlyOnTie ==
    \A id \in DOMAIN props :
        (HitOnUnchangedStore(id)
         /\ Cardinality(Recomputed(LastRun(id).before, NarRows(nar))) > 1) =>
            normalize_postal_code(LastRun(id).before.postal_code) = Some(<<"L","1","T"," ","0","A","0">>)

(***************************************************************************)
(* Spec: the work queue and the batch workers.  queue is the table         *)
(* nar_validation_queue in insertion order (the position of a row stands   *)
(* for queued_at); age is the time since last_attempt_at in minutes, kept  *)
(* only while a row is processing.  workers[w] holds the batch a worker    *)
(* claimed (row positions, the current row first), its step in             *)
(* resolve_and_apply and the match it obtained.  hist is an observer of    *)
(* enqueue: when switched on it holds the property of the last call and    *)
(* the rows the queue had for it.                                          *)
(***************************************************************************)
\* Spec: workers that race for the rows of NumProps properties
NumProps == 1

NumWorkers == 2

\* SpecEnqueue, SpecBatch: one batch loop over NumBatchProps properties
NumBatchProps == 2

NumEnqueueWorkers == 1

BatchSize == 2

\* the clock advances in steps of TickMinutes
TickMinutes == 6

StaleMinutes == 5

RetryAttemptsLimit == 3

DefaultPriority == 5

HighPriority == 1

Priorities == {HighPriority, DefaultPriority}

QueueSeeds == <<1, 4, 3, 2>>

\* the observer of enqueue calls
EnqueueLog(on) == [log |-> on, last |-> NULL]

QueueRow(property_id, priority) ==
    [property_id |-> property_id,
     priority |-> priority,
     status |-> "pending",
     attempts |-> 0,
     age |-> 0,
     last_error |-> FALSE]

IdleWorker == [batch |-> <<>>, phase |-> "idle", match |-> NULL]

\* the queue records of a property
RecordsOf(q, property_id) == { q[i] : i \in { j \in DOMAIN q : q[j].property_id = property_id } }

\* skip logic that looks at pending records only
HasPendingRecord(q, property_id) ==
    \E i \in DOMAIN q : q[i].property_id = property_id /\ q[i].status = "pending"

\* skip logic: the property already has a queue record, whatever its status
HasQueueRecord(q, property_id) ==
    \E i \in DOMAIN q : q[i].property_id = property_id

\* WHERE status = 'processing' AND last_attempt_at < NOW() - INTERVAL '5 minutes'
IsStuck(row) == row.status = "processing" /\ row.age > StaleMinutes

\* WHERE status = 'failed' AND attempts < 3
IsRetryable(row) == row.status = "failed" /\ row.attempts < RetryAttemptsLimit

\* an empty queue, idle workers, an empty cache and the given properties
QueueInit(seeds, num_props, num_workers, log) ==
    /\ props = [i \in 1..num_props |-> Seeds[seeds[i]]]
    /\ queue = <<>>
    /\ workers = [w \in 1..num_workers |-> IdleWorker]
    /\ cache = <<>>
    /\ nar = 1
    /\ enable_cache = TRUE
    /\ hist = EnqueueLog(log)
    /\ rs = <<>> /\ putters = <<>>

Init == QueueInit(QueueSeeds, NumProps, NumWorkers, FALSE)

\* enqueue(property_id, priority)
Enqueue(property_id, priority) ==
    /\ hist' = IF hist.log
               THEN [hist EXCEPT !.last = Some([property_id |-> property_id,
                                                found |-> RecordsOf(queue, property_id)])]
               ELSE hist
    /\ queue' = IF HasQueueRecord(queue, property_id) THEN queue
                ELSE Append(queue, QueueRow(property_id, priority))
    /\ UNCHANGED <<props, workers, cache, nar, enable_cache, rs, putters>>

\* ORDER BY priority, queued_at over the pending rows
PendingRows(q) == { i \in DOMAIN q : q[i].status = "pending" }

ClaimedBefore(q, i, j) ==
    \/ q[i].priority < q[j].priority
    \/ q[i].priority = q[j].priority /\ i < j

ClaimRank(q, i) == Cardinality({ j \in PendingRows(q) : ClaimedBefore(q, j, i) })

ClaimedBatch(q) ==
    [k \in 1..Min(BatchSize, Cardinality(PendingRows(q))) |->
        CHOOSE i \in PendingRows(q) : ClaimRank(q, i) = k - 1]

\* an UPDATE without the filter on the claimed ids
MarkAllProcessing(q, batch) ==
    [i \in DOMAIN q |->
        IF q[i].status = "pending"
        THEN [q[i] EXCEPT !.status = "processing", !.attempts = @ + 1, !.age = 0]
        ELSE q[i]]

MarkProcessing(q, batch) ==
    [i \in DOMAIN q |->
        IF i \in Range(batch)
        THEN [q[i] EXCEPT !.status = "processing", !.attempts = @ + 1, !.age = 0]
        ELSE q[i]]

\* the batch loop claims up to BatchSize pending rows and marks them processing
ClaimBatch(w) ==
    /\ workers[w].phase = "idle"
    /\ PendingRows(queue) # {}
    /\ queue' = MarkProcessing(queue, ClaimedBatch(queue))
    /\ workers' = [workers EXCEPT ![w] =
                     [batch |-> ClaimedBatch(queue), phase |-> "resolve", match |-> NULL]]
    /\ UNCHANGED <<props, cache, nar, enable_cache, hist, rs, putters>>

CurrentRow(w) == Head(workers[w].batch)

CurrentProperty(w) == queue[CurrentRow(w)].property_id

\* a loop that ends with the row it could not process
StopBatch(wk) == IdleWorker

\* the worker goes on to the next row of its batch
NextItem(wk) ==
    IF Len(wk.batch) > 1
    THEN [batch |-> Tail(wk.batch), phase |-> "resolve", match |-> NULL]
    ELSE IdleWorker

\* a status write of a worker: UPDATE nar_validation_queue ... WHERE id = row
SetStatus(q, i, status, error) ==
    [q EXCEPT ![i].status = status, ![i].age = 0, ![i].last_error = error]

\* a worker that records a result without a supporting row as an error
StatusByResult(m) == IF m.found THEN "completed" ELSE "failed"

\* step 6: completed, whatever the result and whether or not it was applied
CompletionStatus(m) == "completed"

\* resolve_and_apply steps 1 to 4 for the current row
Resolve(w) ==
    /\ workers[w].phase = "resolve"
    /\ \E run \in Resolutions(props[CurrentProperty(w)], cache, NarRows(nar), enable_cache) :
         /\ cache' = CacheAfter(props[CurrentProperty(w)], cache, run, enable_cache)
         /\ workers' = [workers EXCEPT ![w].phase = "apply", ![w].match = Some(run.match)]
    /\ UNCHANGED <<props, queue, nar, enable_cache, hist, rs, putters>>

\* resolve_and_apply step 5: the update policy, one write
Apply(w) ==
    /\ workers[w].phase = "apply"
    /\ props' = [props EXCEPT ![CurrentProperty(w)] = ApplyPolicy(@, Val(workers[w].match))]
    /\ workers' = [workers EXCEPT ![w].phase = "finish"]
    /\ UNCHANGED <<queue, cache, nar, enable_cache, hist, rs, putters>>

\* resolve_and_apply step 6: the row becomes completed
Complete(w) ==
    /\ workers[w].phase = "finish"
    /\ queue' = SetStatus(queue, CurrentRow(w),
                          CompletionStatus(Val(workers[w].match)), FALSE)
    /\ workers' = [workers EXCEPT ![w] = NextItem(@)]
    /\ UNCHANGED <<props, cache, nar, enable_cache, hist, rs, putters>>

\* an error handler that stores a not-found result for the key
FailAndCacheNotFound(w) ==
    /\ workers[w].phase \in {"resolve", "apply"}
    /\ queue' = SetStatus(queue, CurrentRow(w), "failed", TRUE)
    /\ workers' = [workers EXCEPT ![w] = NextItem(@)]
    /\ cache' = CachePut(cache, KeyFor(props[CurrentProperty(w)]),
                         AddressMatch(FALSE, NULL, NULL, NULL, NULL, NULL, 0))
    /\ UNCHANGED <<props, nar, enable_cache, hist, rs, putters>>

\* an error handler that counts the failure as one more attempt
FailCounting(w) ==
    /\ workers[w].phase \in {"resolve", "apply"}
    /\ queue' = [SetStatus(queue, CurrentRow(w), "failed", TRUE)
                    EXCEPT ![CurrentRow(w)].attempts = @ + 1]
    /\ workers' = [workers EXCEPT ![w] = NextItem(@)]
    /\ UNCHANGED <<props, cache, nar, enable_cache, hist, rs, putters>>

\* an unhandled error in the orchestrator: the row becomes failed, the loop goes on
Fail(w) ==
    /\ workers[w].phase \in {"resolve", "apply"}
    /\ queue' = SetStatus(queue, CurrentRow(w), "failed", TRUE)
    /\ workers' = [workers EXCEPT ![w] = NextItem(@)]
    /\ UNCHANGED <<props, cache, nar, enable_cache, hist, rs, putters>>

\* the attempt is given up or the service dies: the row stays processing
Timeout(w) ==
    /\ workers[w].phase \in {"resolve", "apply"}
    /\ workers' = [workers EXCEPT ![w] = NextItem(@)]
    /\ UNCHANGED <<props, queue, cache, nar, enable_cache, hist, rs, putters>>

\* time passes
Tick ==
    /\ \E i \in DOMAIN queue : queue[i].status = "processing" /\ ~ IsStuck(queue[i])
    /\ queue' = [i \in DOMAIN queue |->
                    IF queue[i].status = "processing" /\ ~ IsStuck(queue[i])
                    THEN [queue[i] EXCEPT !.age = @ + TickMinutes]
                    ELSE queue[i]]
    /\ UNCHANGED <<props, workers, cache, nar, enable_cache, hist, rs, putters>>

\* "Reset stuck items to pending"
ResetStuck ==
    /\ \E i \in DOMAIN queue : IsStuck(queue[i])
    /\ queue' = [i \in DOMAIN queue |->
                    IF IsStuck(queue[i])
                    THEN [queue[i] EXCEPT !.status = "pending", !.attempts = 0, !.age = 0]
                    ELSE queue[i]]
    /\ UNCHANGED <<props, workers, cache, nar, enable_cache, hist, rs, putters>>

\* "Retry failed items"
ResetFailed ==
    /\ \E i \in DOMAIN queue : IsRetryable(queue[i])
    /\ queue' = [i \in DOMAIN queue |->
                    IF IsRetryable(queue[i])
                    THEN [queue[i] EXCEPT !.status = "pending", !.attempts = 0,
                                          !.last_error = FALSE]
                    ELSE queue[i]]
    /\ UNCHANGED <<props, workers, cache, nar, enable_cache, hist, rs, putters>>

Next ==
    \/ \E property_id \in DOMAIN props, priority \in Priorities :
          Enqueue(property_id, priority)
    \/ \E w \in DOMAIN workers : ClaimBatch(w)
    \/ \E w \in DOMAIN workers : Resolve(w)
    \/ \E w \in DOMAIN workers : Apply(w)
    \/ \E w \in DOMAIN workers : Complete(w)
    \/ \E w \in DOMAIN workers : Fail(w)
    \/ \E w \in DOMAIN workers : Timeout(w)
    \/ Tick
    \/ ResetStuck
    \/ ResetFailed

Spec == Init /\ [][Next]_vars

(***************************************************************************)
(* SpecEnqueue: the same queue and steps with one batch worker and the     *)
(* observer of enqueue calls switched on.                                  *)
(***************************************************************************)
InitEnqueue == QueueInit(QueueSeeds, NumBatchProps, NumEnqueueWorkers, TRUE)

SpecEnqueue == InitEnqueue /\ [][Next]_vars

(***************************************************************************)
(* SpecBatch: the same queue and steps with one batch worker, over pairs   *)
(* of properties whose resolutions end without a city, without an address  *)
(* match or below the update threshold.                                    *)
(***************************************************************************)
BatchSeeds == {<<7, 9, 6>>, <<5, 4, 6>>}

InitBatch ==
    \E seeds \in BatchSeeds : QueueInit(seeds, NumBatchProps, NumEnqueueWorkers, FALSE)

SpecBatch == InitBatch /\ [][Next]_vars

(***************************************************************************)
(* SpecLive: one batch worker that keeps running over NumLiveProps         *)
(* properties, more than a batch holds.  No attempt is given up and no     *)
(* time passes, so no row becomes stale; errors and the retry of failed    *)
(* rows stay possible.  The worker's own steps are weakly fair: a worker   *)
(* that keeps running takes the step it is ready for.                      *)
(***************************************************************************)
NumLiveProps == 3

LiveSeeds == <<9, 6, 1>>

InitLive == QueueInit(LiveSeeds, NumLiveProps, NumEnqueueWorkers, FALSE)

NextLive ==
    \/ \E property_id \in DOMAIN props, priority \in Priorities :
          Enqueue(property_id, priority)
    \/ \E w \in DOMAIN workers : ClaimBatch(w)
    \/ \E w \in DOMAIN workers : Resolve(w)
    \/ \E w \in DOMAIN workers : Apply(w)
    \/ \E w \in DOMAIN workers : Complete(w)
    \/ \E w \in DOMAIN workers : Fail(w)
    \/ ResetFailed

\* WF_vars(Resolve(w)) written without ENABLED: Resolve(w) is enabled exactly
\* while the worker's phase is resolve, and every Resolve step leaves it
ResolveIsFair(w) == []<>(workers[w].phase # "resolve")

WorkerKeepsRunning ==
    \A w \in 1..NumEnqueueWorkers :
        /\ WF_vars(ClaimBatch(w))
        /\ ResolveIsFair(w)
        /\ WF_vars(Apply(w))
        /\ WF_vars(Complete(w))

SpecLive == InitLive /\ [][NextLive]_vars /\ WorkerKeepsRunning

\* the same worker and enqueues with no operator running "Retry failed items"
NextLiveNoRetry ==
    \/ \E property_id \in DOMAIN props, priority \in Priorities : Enqueue(property_id, priority)
    \/ \E w \in DOMAIN workers : ClaimBatch(w)
    \/ \E w \in DOMAIN workers : Resolve(w)
    \/ \E w \in DOMAIN workers : Apply(w)
    \/ \E w \in DOMAIN workers : Complete(w)
    \/ \E w \in DOMAIN workers : Fail(w)

SpecLiveNoRetry == InitLive /\ [][NextLiveNoRetry]_vars /\ WorkerKeepsRunning

(***************************************************************************)
(* Properties of the work queue (Spec, SpecEnqueue).                       *)
(***************************************************************************)
Busy(w) == workers[w].phase # "idle"

\* a worker that was idle holds row i in the batch it has just claimed
ClaimedNow(i) ==
    \E w \in DOMAIN workers :
        workers[w].phase = "idle" /\ i \in Range(workers'[w].batch)

LegalTransition(i) ==
    \/ queue[i].status = "pending" /\ queue'[i].status = "processing" /\ ClaimedNow(i)
    \/ queue[i].status = "processing" /\ queue'[i].status \in {"completed", "failed"}
    \/ queue[i].status = "failed" /\ queue'[i].status = "pending"
    \/ /\ queue[i].status = "processing"
       /\ queue[i].age > StaleMinutes
       /\ queue'[i].status = "pending"

\* C3: every change of a queue row's status is pending to processing (a claim
\* by a batch worker), processing to completed, processing to failed, or a reset
\* to pending of a failed row or of a processing row older than the staleness
\* threshold; rows are never removed.
C3_StatusTransitions ==
    [][/\ Len(queue') >= Len(queue)
       /\ \A i \in DOMAIN queue :
             queue'[i].status # queue[i].status => LegalTransition(i)]_vars

\* C4: at most one worker is processing a given property at any time.
C4_OneWorkerPerProperty ==
    \A w1, w2 \in DOMAIN workers :
        (w1 # w2 /\ Busy(w1) /\ Busy(w2)) => CurrentProperty(w1) # CurrentProperty(w2)

\* an enqueue step for property p: the observer saw the call or the queue grew
EnqueueStep(p) ==
    \/ hist'.last # hist.last /\ Val(hist'.last).property_id = p
    \/ Len(queue') > Len(queue) /\ queue'[Len(queue')].property_id = p

IsStale(row) == row.status = "processing" /\ row.age > StaleMinutes

HasLiveItem(rows) == \E row \in rows : row.status # "failed" /\ ~ IsStale(row)

\* C6: enqueue for a property that has a queue row that is neither failed nor
\* stale adds no row and leaves the rows of the queue (status, priority,
\* attempts) as they were.
C6_EnqueueIsNoOp ==
    [][\A p \in DOMAIN props :
          (EnqueueStep(p) /\ HasLiveItem(RecordsOf(queue, p))) => queue' = queue]_vars

\* enqueue was called for a property whose only row was processing and fresh,
\* and the queue still holds that one row for it
C6_Witness ==
    /\ ~ IsNull(hist.last)
    /\ \E row \in Val(hist.last).found : row.status = "processing" /\ row.age = 0
    /\ HasLiveItem(Val(hist.last).found)
    /\ Cardinality({ i \in DOMAIN queue :
                       queue[i].property_id = Val(hist.last).property_id }) = 1

\* the whole change set of one resolution with match m, from p to q
WholeChange(p, q, m) ==
    /\ m.confidence >= 90
    /\ q.city = IF Truthy(m.city) THEN m.city ELSE p.city
    /\ q.postal_code = IF Truthy(m.postal_code) THEN m.postal_code ELSE p.postal_code
    /\ IF ~ IsNull(m.latitude) /\ ~ IsNull(m.longitude)
       THEN q.latitude = m.latitude /\ q.longitude = m.longitude
       ELSE q.latitude = p.latitude /\ q.longitude = p.longitude
    /\ q.city_backup = IF IsNull(p.city_backup) THEN p.city ELSE p.city_backup

FinishStep(w) == workers[w].phase = "finish" /\ workers'[w] # workers[w]

C12_FailureDoesNotStopBatch ==
    [][\A w \in DOMAIN workers :
          Fail(w) =>
             /\ queue'[CurrentRow(w)].status = "failed"
             /\ queue'[CurrentRow(w)].last_error
             /\ \A j \in DOMAIN queue \ {CurrentRow(w)} : queue'[j] = queue[j]
             /\ Len(workers[w].batch) > 1 =>
                   /\ workers'[w].batch = Tail(workers[w].batch)
                   /\ workers'[w].phase = "resolve"]_vars

\* the first row of a batch failed and the worker has completed the second
C12_Witness ==
    /\ Len(queue) = 2
    /\ queue[1].status = "failed" /\ queue[1].last_error /\ queue[1].attempts = 1
    /\ queue[2].status = "completed" /\ queue[2].attempts = 1
    /\ queue[1].priority = queue[2].priority

\* C13: an error raised while the resolution is computed (a failed Reference
\* Store query) makes the row failed with the error recorded and leaves the
\* cache as it was; the cache only ever receives the match of a resolution
\* that was computed to its end.
C13_NoCachingOfFailures ==
    [][/\ \A w \in DOMAIN workers :
             (Fail(w) /\ workers[w].phase = "resolve") =>
                /\ queue'[CurrentRow(w)].status = "failed"
                /\ queue'[CurrentRow(w)].last_error
                /\ cache' = cache
       /\ cache' # cache =>
             \E w \in DOMAIN workers :
                /\ workers[w].phase = "resolve" /\ workers'[w].phase = "apply"
                /\ [Val(workers'[w].match) EXCEPT !.matched_house_number = NULL] \in
                      CacheGet(cache', KeyFor(props[CurrentProperty(w)]))]_vars

\* a row failed while its resolution was computed, was reset and claimed again,
\* and the cache has no entry for its key
C13_Witness ==
    \E w \in DOMAIN workers :
        /\ workers[w].phase = "resolve"
        /\ queue[CurrentRow(w)].status = "processing"
        /\ queue[CurrentRow(w)].attempts = 1
        /\ ~ queue[CurrentRow(w)].last_error
        /\ CacheGet(cache, KeyFor(props[CurrentProperty(w)])) = {}
        /\ \E j \in DOMAIN queue : queue[j].status = "failed"

\* row i goes from pending to processing in this step
ProcessingStart(i) == queue[i].status = "pending" /\ queue'[i].status = "processing"

\* row i is put back to pending by one of the two reset statements
ResetToPending(i) ==
    queue[i].status \in {"failed", "processing"} /\ queue'[i].status = "pending"

AttemptsAtMostOne == \A i \in DOMAIN queue : queue[i].attempts <= 1

IsPending(i) == i \in DOMAIN queue /\ queue[i].status = "pending"

IsFinished(i) == i \in DOMAIN queue /\ queue[i].status \in {"completed", "failed"}

\* C30: while the batch worker keeps running and no attempt times out, every
\* pending queue row is eventually claimed and reaches completed or failed,
\* also when other rows are enqueued in the meantime.
C30_PendingIsEventuallyFinished ==
    \A i \in 1..NumLiveProps : IsPending(i) ~> IsFinished(i)

\* a row of default priority still waits while a row enqueued after it, of
\* high priority, was claimed first and is completed
C30_Witness ==
    \E i, j \in DOMAIN queue :
        /\ i < j
        /\ queue[i].status = "pending" /\ queue[i].priority = DefaultPriority
        /\ queue[i].attempts = 0
        /\ queue[j].status = "completed" /\ queue[j].priority = HighPriority

\* every row of the queue is finished
C30_WitnessDrained ==
    /\ Len(queue) = NumLiveProps
    /\ \A i \in DOMAIN queue : queue[i].status = "completed"

\* every pending row is eventually claimed: it leaves pending
PendingIsEventuallyClaimed ==
    \A i \in 1..NumLiveProps : IsPending(i) ~> ~ IsPending(i)

(***************************************************************************)
(* SpecExpand: expand_address_range applied to one house-number token.  rs *)
(* holds the token, how it was written (a range a-b with its separator, or *)
(* some other text) and the returned list once the call was made.          *)
(***************************************************************************)
MaxSmallSpan == 3

ExpandStarts == {0, 8, 251}

\* b - a for the ranges a-b: short ranges, and ranges of 50, 51 and 52 numbers
ExpandSpans == (0..MaxSmallSpan) \cup {49, 50, 51}

HyphenForms == {<<"-">>, <<" ","-"," ">>, <<" ","-">>, <<"-"," ">>}

RangeToken(a, b, hyphen) == IntToStr(a) \o hyphen \o IntToStr(b)

RangeInputs ==
    { [token |-> RangeToken(a, a + d, h), kind |-> "range", a |-> a, b |-> a + d,
       out |-> NULL] : a \in ExpandStarts, d \in ExpandSpans, h \in HyphenForms }

DescendingInputs ==
    { [token |-> RangeToken(a + d, a, <<"-">>), kind |-> "descending", a |-> a + d, b |-> a,
       out |-> NULL] : a \in ExpandStarts, d \in 1..MaxSmallSpan }

OtherTokens ==
    {<<>>, <<"1","2","3">>, <<" ","7"," ">>, <<"1","2","A">>, <<"1","-","2","-","3">>, <<"8","-","-","9">>, <<"A","-","B">>, <<"1","2","A","-","1","4">>, <<"1","2","-">>, <<"-","1","2">>,
     <<"1","0"," ","1","/","2">>, <<"N","/","A">>}

OtherInputs ==
    { [token |-> t, kind |-> "other", a |-> 0, b |-> 0, out |-> NULL] : t \in OtherTokens }

InitExpand ==
    /\ rs \in RangeInputs \cup DescendingInputs \cup OtherInputs
    /\ nar = 1
    /\ enable_cache = TRUE
    /\ props = <<>> /\ queue = <<>> /\ workers = <<>> /\ cache = <<>>
    /\ hist = <<>> /\ putters = <<>>

\* candidates = expand_address_range(house_number)
Expand ==
    /\ IsNull(rs.out)
    /\ rs' = [rs EXCEPT !.out = Some(expand_address_range(rs.token))]
    /\ UNCHANGED <<props, queue, workers, cache, nar, enable_cache, hist, putters>>

NextExpand == Expand

SpecExpand == InitExpand /\ [][NextExpand]_vars

(***************************************************************************)
(* Properties of the range expander (SpecExpand).                          *)
(***************************************************************************)
Expanded == ~ IsNull(rs.out)

\* the decimal strings of a, a + 1, ..., b
Decimals(a, b) == [k \in 1..(b - a + 1) |-> IntToStr(a + k - 1)]

\* C15: for a token a-b with a <= b, written with or without spaces around
\* the hyphen, expand returns the decimal strings of a..b in ascending order;
\* for a token without a hyphen it returns the singleton of that token.
C15_ExpandRange ==
    Expanded =>
        /\ rs.kind = "range" => Val(rs.out) = Decimals(rs.a, rs.b)
        /\ ~ Contains(rs.token, <<"-">>) => Val(rs.out) = <<rs.token>>

\* C16: expand never returns more than 50 candidate numbers.
C16_AtMostFifty == Expanded => Len(Val(rs.out)) <= 50

\* C19: expand never returns an empty sequence, and it returns the singleton
\* of the token whenever the token is not a range a-b with a <= b.
C19_NeverEmpty ==
    Expanded =>
        /\ Val(rs.out) # <<>>
        /\ rs.kind # "range" => Val(rs.out) = <<rs.token>>

(***************************************************************************)
(* SpecParse: parse_address applied to one raw address with its city and   *)
(* postal code.  rs holds the three inputs and the returned dictionary     *)
(* once the call was made.                                                 *)
(***************************************************************************)
ParseAddresses ==
    {<<"2","5","1"," ","-"," ","2","5","5"," ","D","A","V","E","N","P","O","R","T"," ","R","D">>, <<"2","5","1","-","2","5","5"," ","D","A","V","E","N","P","O","R","T"," ","R","D">>, <<"7","4","5","-","7","4","7"," ","S","T"," ","C","L","A","I","R"," ","S","T">>,
     <<"4","1"," ","-"," ","4","7"," ","B","E","A","C","H"," ","D","R">>, <<"1","2","3"," ","M","a","i","n"," ","S","t","r","e","e","t">>, <<"1","5","2","1"," ","Y","o","n","g","e"," ","S","t","r","e","e","t">>, <<"7"," ","L","a","k","e"," ","R","d"," ","#","4">>,
     <<"1","0","0"," ","K","i","n","g"," ","S","t"," ","U","n","i","t"," ","5">>, <<"2"," ","&"," ","4"," ","E","l","m"," ","A","v","e","n","u","e">>, <<"N","i","a","g","a","r","a"," ","F","a","l","l","s"," ","6","3","8","0"," ","F","a","l","l","s","v","i","e","w"," ","B","o","u","l","e","v","a","r","d">>,
     <<"D","A","V","E","N","P","O","R","T"," ","R","D">>, <<>>}

ParseCities == {NULL, Some(<<"T","o","r","o","n","t","o">>), Some(<<"T","o","r","o","n","t","o"," ","(","Y","o","r","k",")">>)}

ParsePostals == {NULL, Some(<<"M","5","R"," ","1","J","9">>), Some(<<"m","5","r","1","j","9">>), Some(<<"M","5","R">>), Some(<<"M","5","R"," ","1","J","9"," ","X">>)}

InitParse ==
    /\ \E a \in ParseAddresses, c \in ParseCities, z \in ParsePostals :
         rs = [address_line1 |-> Some(a), city |-> c, postal_code |-> z, out |-> NULL]
    /\ nar = 1
    /\ enable_cache = TRUE
    /\ props = <<>> /\ queue = <<>> /\ workers = <<>> /\ cache = <<>>
    /\ hist = <<>> /\ putters = <<>>

\* parsed = parse_address(address_line1, city, postal_code)
Parse ==
    /\ IsNull(rs.out)
    /\ rs' = [rs EXCEPT !.out = Some(parse_address(rs.address_line1, rs.city, rs.postal_code))]
    /\ UNCHANGED <<props, queue, workers, cache, nar, enable_cache, hist, putters>>

NextParse == Parse

SpecParse == InitParse /\ [][NextParse]_vars

(***************************************************************************)
(* Properties of the parser (SpecParse).                                   *)
(***************************************************************************)
Parsed == ~ IsNull(rs.out)

DavenportRange ==
    /\ rs.address_line1 = Some(<<"2","5","1"," ","-"," ","2","5","5"," ","D","A","V","E","N","P","O","R","T"," ","R","D">>)
    /\ rs.city = Some(<<"T","o","r","o","n","t","o">>)

\* C24: parsing "251 - 255 DAVENPORT RD" with city "Toronto" yields a house
\* number that still encodes the range 251 to 255 ("251 - 255" or "251-255")
\* and the street name "DAVENPORT RD", which starts with neither a digit nor a
\* hyphen.
C24_RangeKeptStreetClean ==
    (Parsed /\ DavenportRange) =>
        /\ Val(rs.out).street_number \in {Some(<<"2","5","1"," ","-"," ","2","5","5">>), Some(<<"2","5","1","-","2","5","5">>)}
        /\ Val(rs.out).street_name = <<"D","A","V","E","N","P","O","R","T"," ","R","D">>
        /\ ~ IsDigit(Val(rs.out).street_name[1])
        /\ Val(rs.out).street_name[1] # "-"

\* what the code returns for that input: the first number, and the second
\* number as the street
DavenportParsedAs251And255 ==
    (Parsed /\ DavenportRange) =>
        /\ Val(rs.out).street_number = Some(<<"2","5","1">>)
        /\ Val(rs.out).street_name = <<"2","5","5">>
        /\ Val(rs.out).address_clean = <<"2","5","1"," ","2","5","5">>

\* the unspaced range keeps its street but loses its second number
UnspacedRangeParsedAs251 ==
    (Parsed /\ rs.address_line1 = Some(<<"2","5","1","-","2","5","5"," ","D","A","V","E","N","P","O","R","T"," ","R","D">>)) =>
        /\ Val(rs.out).street_number = Some(<<"2","5","1">>)
        /\ Val(rs.out).street_name = <<"D","A","V","E","N","P","O","R","T"," ","R","D">>

====
